---- MODULE Spec2Model ----
(***************************************************************************)
(* Ingestion pipeline of planilha-de-prazos-geral: the IMAP email run      *)
(* (scrap_email.py, buscar_e_processar_emails), the PJe Comunica scrape    *)
(* run (scrap_pje.py, run) and the last_checked watermark table they       *)
(* share (db.py, last_checked_utils.py); the form handlers of app.py with  *)
(* the archive and the calendar (calendar_integration.py); the extraction  *)
(* functions of scrap_email.py.                                            *)
(*                                                                         *)
(* Instants are integers: seconds, UTC.  A Python aware datetime is a      *)
(* record [utc, off]; comparisons between aware datetimes compare utc.     *)
(* An optional value is a sequence: <<>> is None, <<x>> is x.              *)
(***************************************************************************)
EXTENDS Integers, Sequences, FiniteSets, TLC

VARIABLES
    mailbox,              \* ids of the messages the IMAP server holds
    last_checked,         \* table last_checked: rows [scope, checked_at]
    andamentos,           \* table andamentos: rows (email path)
    publicacoes,          \* table publicacoes: rows (email digest and scrape)
    agenda,               \* table agenda: rows
    financeiro,           \* table financeiro: rows
    e_pc,                 \* position of buscar_e_processar_emails
    ultima_data,          \* local: watermark read at the start of the run
    max_data_processada,  \* local: running maximum of the message dates
    pasta,                \* local: index of the folder of the outer loop
    remetente,            \* local: index of the sender of the middle loop
    ids,                  \* local: message ids still to handle of this search
    e_log,                \* history: one record per email run started
    e_last,               \* history: what the last message step did
    today,                \* the wall clock's calendar day (Sao Paulo)
    p_pc,                 \* position of scrap_pje.run
    p_args,               \* arguments of the scrape run (from, to, dry_run)
    cur,                  \* local: the day the scrape loop is at
    attempts,             \* fetch attempts made for cur (tenacity)
    norm,                 \* local: normalized records of cur
    p_runs,               \* number of scrape runs started
    p_hist,               \* history: the current (or last) scrape run
    p_seen,               \* history: the days saved so far, with the cards read
    concluidas,           \* table concluidas: the archive rows
    calendar,             \* events the Google calendar holds: [event_id, rid]
    warnings,             \* st.session_state["__calendar_warnings"]
    a_pc,                 \* position of the form handler of app.py that runs
    a_op,                 \* locals of that handler
    a_n,                  \* number of handler calls made
    a_seq,                \* the serial counters of the ids
    cal_log,              \* history: the calendar calls made, [call, rid]
    a_last,               \* history: how the last handler call ended
    f_call,               \* the call of an extraction function: [fn, arg]
    f_ret,                \* what that call returned
    w_pc,                 \* position of fetch_publicacoes_for_day in the page
    page_cards,           \* the result cards the page holds
    last_count,           \* the local of the scroll loop
    counts                \* history: the card count of every poll

e_vars == <<e_pc, ultima_data, max_data_processada, pasta, remetente, ids,
            e_log, e_last>>
p_vars == <<p_pc, p_args, cur, attempts, norm, p_runs, p_hist, p_seen>>
a_vars == <<concluidas, calendar, warnings, a_pc, a_op, a_n, a_seq, cal_log,
            a_last>>
f_vars == <<f_call, f_ret>>
w_vars == <<w_pc, page_cards, last_count, counts>>
tables == <<andamentos, publicacoes, agenda, financeiro>>
vars == <<mailbox, last_checked, andamentos, publicacoes, agenda, financeiro,
          e_pc, ultima_data, max_data_processada, pasta, remetente, ids,
          e_log, e_last, today,
          p_pc, p_args, cur, attempts, norm, p_runs, p_hist, p_seen,
          concluidas, calendar, warnings, a_pc, a_op, a_n, a_seq, cal_log,
          a_last, f_call, f_ret, w_pc, page_cards, last_count, counts>>

-----------------------------------------------------------------------------
(* Bounds of the model *)

MaxEmailRuns == 2
MaxScrapeRuns == 2
MaxDay == 3
MaxAppOps == 3
MaxAffix == 1

-----------------------------------------------------------------------------
(* Time *)

SecondsPerDay == 24 * 60 * 60
\* timezone(timedelta(hours=-3))
FusoBrasil == (0 - 3) * 3600
Days == 1..MaxDay

None == <<>>
Some(x) == <<x>>
Val(o) == o[1]

Max(S) == CHOOSE x \in S : \A y \in S : y <= x

\* datetime.astimezone(tz): the same instant at another offset
AsTimezone(dt, off) == [utc |-> dt.utc, off |-> off]
\* datetime.date() / the day format_imap_date prints: the local calendar day
LocalDay(dt) == (dt.utc + dt.off) \div SecondsPerDay
\* datetime.min.replace(tzinfo=fuso_brasil)
datetime_min == [utc |-> 0 - 1000000000, off |-> FusoBrasil]

-----------------------------------------------------------------------------
(* The mail server *)

PASTAS == <<"inbox", "Bulk">>
REMETENTES == <<"nao-responda@trt1.jus.br", "nao-responda@trtsp.jus.br",
                "eproc-bounce@trf2.jus.br", "rd_oabrj@recortedigital.adv.br",
                "pmfgestao@pmf.mps.gov.br">>

\* A sub-block of a digest email: has a PROCESSO number, has a publication
\* date, matches the election/appointment keywords.
Bloco(p, d, e) == [processo |-> p, data |-> d, edital |-> e]

\* The messages that can arrive.  date is the Date header (None when it is
\* missing or unparseable), internal the server's arrival instant that SINCE
\* filters on, tipo the result of detectar_audiencia_pericia on the body.
Messages == <<
    [pasta |-> "inbox", remetente |-> "nao-responda@trt1.jus.br",
     internal |-> 86400, date |-> Some([utc |-> 86400, off |-> 0]),
     tipo |-> None, blocos |-> <<>>],
    [pasta |-> "inbox", remetente |-> "rd_oabrj@recortedigital.adv.br",
     internal |-> 129600, date |-> Some([utc |-> 129600, off |-> 0]),
     tipo |-> Some("audiencia"),
     blocos |-> <<Bloco(TRUE, TRUE, FALSE), Bloco(TRUE, FALSE, TRUE),
                  Bloco(FALSE, FALSE, FALSE)>>],
    [pasta |-> "Bulk", remetente |-> "nao-responda@trtsp.jus.br",
     internal |-> 86400, date |-> Some([utc |-> 86400, off |-> FusoBrasil]),
     tipo |-> Some("audiencia"), blocos |-> <<>>],
    [pasta |-> "Bulk", remetente |-> "eproc-bounce@trf2.jus.br",
     internal |-> 129600, date |-> None,
     tipo |-> None, blocos |-> <<>>],
    [pasta |-> "Bulk", remetente |-> "pmfgestao@pmf.mps.gov.br",
     internal |-> 43200, date |-> Some([utc |-> 43200, off |-> 0]),
     tipo |-> Some("pericia"), blocos |-> <<>>] >>

MsgIds == 1..Len(Messages)

\* mail.search(None, '(FROM "<remetente>" SINCE <data_corte>)') in the
\* selected folder: the server filters on the day of the internal date.
Search(box, p, r, data_corte) ==
    SelectSeq([i \in MsgIds |-> i],
              LAMBDA i : /\ i \in box
                         /\ Messages[i].pasta = PASTAS[p]
                         /\ Messages[i].remetente = REMETENTES[r]
                         /\ (Messages[i].internal + FusoBrasil) \div SecondsPerDay
                               >= data_corte)

-----------------------------------------------------------------------------
(* The watermark table *)

\* A row of last_checked.  scope is the column last_checked_utils filters and
\* writes (None in the rows salvar_ultima_data adds); the LastChecked class
\* of db.py declares id and checked_at only, so the column is the deployed
\* table's.
LcRow(scope, at) == [scope |-> scope, checked_at |-> at]

\* db.query(LastChecked).first()
First(lc) == IF lc = <<>> THEN None ELSE Some(lc[1])

ler_ultima_data(lc) ==
    IF First(lc) # None /\ Val(First(lc)).checked_at # None
    THEN AsTimezone([utc |-> Val(Val(First(lc)).checked_at), off |-> 0],
                    FusoBrasil)
    ELSE datetime_min

salvar_ultima_data(lc, dt) ==
    LET dt_local == AsTimezone(dt, FusoBrasil)
    IN IF First(lc) # None
       THEN [lc EXCEPT ![1].checked_at = Some(dt_local.utc)]
       ELSE Append(lc, LcRow(None, Some(dt_local.utc)))

-----------------------------------------------------------------------------
(* Rows.  Every row records the message (or card) it was made from and the   *)
(* number of the run that inserted it.                                      *)

AndamentoRow(m, run) == [msg |-> m, run |-> run]
AgendaRow(m, sistema, run) == [msg |-> m, sistema |-> sistema, run |-> run]
PubEmailRow(m, b, run) ==
    [src |-> "email", msg |-> m, bloco |-> b, hash_dedup |-> None, run |-> run]

\* processar_recorte_publicacao: the sub-blocks with a process number or a
\* publication date, as indexes into the message's blocks
processar_recorte_publicacao(blocos) ==
    SelectSeq([i \in 1..Len(blocos) |-> i],
              LAMBDA i : blocos[i].processo \/ blocos[i].data)

\* is_edital_nomeacao_publicacao on the text of block i
is_edital_nomeacao_publicacao(blocos, i) == blocos[i].edital

NoRows == [andamentos |-> <<>>, publicacoes |-> <<>>, agenda |-> <<>>]

\* the branch with the Andamento row left out when a hearing/exam is detected
RowsForExclusive(m, run) ==
    LET msg == Messages[m]
    IN  IF msg.remetente = "rd_oabrj@recortedigital.adv.br"
        THEN [NoRows EXCEPT !.publicacoes =
                [k \in 1..Len(processar_recorte_publicacao(msg.blocos)) |->
                    PubEmailRow(m, processar_recorte_publicacao(msg.blocos)[k], run)]]
        ELSE IF msg.tipo # None
        THEN [NoRows EXCEPT !.agenda = <<AgendaRow(m, msg.remetente, run)>>]
        ELSE [NoRows EXCEPT !.andamentos = <<AndamentoRow(m, run)>>]

\* The rows one fetched, non-skipped message commits (the branch on the
\* sender and on the detected hearing/exam).
RowsFor(m, run) ==
    LET msg == Messages[m]
        _dados_agenda_auto == msg.tipo # None
    IN  IF msg.remetente = "rd_oabrj@recortedigital.adv.br"
        THEN LET pubs == processar_recorte_publicacao(msg.blocos)
                 kept == SelectSeq(pubs, LAMBDA i :
                            ~is_edital_nomeacao_publicacao(msg.blocos, i))
             IN [NoRows EXCEPT !.publicacoes =
                    [k \in 1..Len(kept) |-> PubEmailRow(m, kept[k], run)]]
        ELSE IF msg.remetente = "pmfgestao@pmf.mps.gov.br"
        THEN [NoRows EXCEPT !.agenda = <<AgendaRow(m, "pmfgestao", run)>>]
        ELSE [NoRows EXCEPT
                !.agenda = IF _dados_agenda_auto
                           THEN <<AgendaRow(m, msg.remetente, run)>>
                           ELSE <<>>,
                !.andamentos = <<AndamentoRow(m, run)>>]

-----------------------------------------------------------------------------
(* buscar_e_processar_emails *)

\* the guard with < for <=
SkipGuardStrict(data_email, ultima) ==
    data_email # None /\ Val(data_email).utc < ultima.utc

\* a guard that also skips a message without a Date
SkipGuardNoDate(data_email, ultima) ==
    data_email = None \/ Val(data_email).utc <= ultima.utc

\* if data_email is not None and data_email <= ultima_data: continue
SkipGuard(data_email, ultima) ==
    data_email # None /\ Val(data_email).utc <= ultima.utc

\* the running maximum replaced by the date of the last message handled
NextMaxLast(data_email, mx) ==
    IF data_email # None THEN Val(data_email) ELSE mx

\* if data_email and data_email > max_data_processada: max_... = data_email
NextMax(data_email, mx) ==
    IF data_email # None /\ Val(data_email).utc > mx.utc
    THEN Val(data_email) ELSE mx

\* if max_data_processada > ultima_data: salvar_ultima_data(...)
ShouldSave(mx, ultima) == mx.utc > ultima.utc

e_run == Len(e_log)
NoLast == [msg |-> 0, outcome |-> "none"]

EmailIdleLocals ==
    /\ ultima_data' = datetime_min
    /\ max_data_processada' = datetime_min
    /\ pasta' = 1
    /\ remetente' = 1
    /\ ids' = <<>>

\* The loops' control once the ids of a search are exhausted: the next
\* sender, then the next folder, then mail.logout().
EmailAdvance ==
    /\ ids' = <<>>
    /\ IF remetente < Len(REMETENTES)
       THEN e_pc' = "search" /\ remetente' = remetente + 1 /\ pasta' = pasta
       ELSE IF pasta < Len(PASTAS)
       THEN e_pc' = "search" /\ remetente' = 1 /\ pasta' = pasta + 1
       ELSE e_pc' = "logout" /\ UNCHANGED <<remetente, pasta>>

\* New mail arrives (between runs); internal dates are arrival instants, so
\* they never decrease from one arrival to the next.
Deliver ==
    /\ e_pc = "idle"
    /\ \E m \in MsgIds \ mailbox :
        /\ \A k \in mailbox : Messages[k].internal <= Messages[m].internal
        /\ mailbox' = mailbox \cup {m}
    /\ UNCHANGED <<last_checked, tables, e_vars, today, p_vars, a_vars, f_vars, w_vars>>

\* Connect, log in, read the watermark.
EmailStart ==
    /\ e_pc = "idle"
    /\ e_run < MaxEmailRuns
    /\ ultima_data' = ler_ultima_data(last_checked)
    /\ max_data_processada' = ler_ultima_data(last_checked)
    /\ pasta' = 1
    /\ remetente' = 1
    /\ ids' = <<>>
    /\ e_pc' = "search"
    /\ e_log' = Append(e_log, [box |-> mailbox,
                               start |-> ler_ultima_data(last_checked).utc,
                               result |-> "running", clean |-> TRUE,
                               seen |-> {}])
    /\ e_last' = NoLast
    /\ UNCHANGED <<mailbox, last_checked, tables, today, p_vars, a_vars, f_vars, w_vars>>

\* mail.select / mail.search for the current folder and sender; an IMAP
\* error or a status other than OK skips the sender.
EmailSearch ==
    /\ e_pc = "search"
    /\ \E ok \in BOOLEAN :
        LET all == Search(mailbox, pasta, remetente, LocalDay(ultima_data))
            found == IF ok THEN all ELSE <<>>
        IN /\ IF found # <<>>
              THEN ids' = found /\ e_pc' = "fetch"
                   /\ UNCHANGED <<pasta, remetente>>
              ELSE EmailAdvance
           /\ e_log' = [e_log EXCEPT ![e_run].clean = @ /\ (found = all)]
    /\ UNCHANGED <<mailbox, last_checked, tables, ultima_data,
                   max_data_processada, e_last, today, p_vars, a_vars, f_vars, w_vars>>

\* One iteration of the message loop on the first of ids: fetch, date
\* guard, running maximum, extraction, commit.  out = "raise": an exception
\* escapes the iteration (nothing in the loop catches it) and ends the run.
EmailMessageCore ==
    /\ e_pc = "fetch"
    /\ ids # <<>>
    /\ \E out \in {"ok", "fetch_failed", "raise"} :
        LET m == Head(ids)
            data_email == Messages[m].date
            skip == SkipGuard(data_email, ultima_data)
            rows == IF out = "ok" /\ ~skip THEN RowsFor(m, e_run) ELSE NoRows
        IN /\ andamentos' = andamentos \o rows.andamentos
           /\ publicacoes' = publicacoes \o rows.publicacoes
           /\ agenda' = agenda \o rows.agenda
           /\ e_last' = [msg |-> m,
                         outcome |-> IF out = "fetch_failed" THEN out
                                     ELSE IF skip THEN "skipped"
                                     ELSE IF out = "raise" THEN out
                                     ELSE "persisted"]
           /\ IF out = "raise" /\ ~skip
              THEN /\ e_pc' = "idle"
                   /\ EmailIdleLocals
                   /\ e_log' = [e_log EXCEPT ![e_run].result = "aborted"]
              ELSE /\ max_data_processada' =
                        IF out = "ok" /\ ~skip
                        THEN NextMax(data_email, max_data_processada)
                        ELSE max_data_processada
                   /\ e_log' = [e_log EXCEPT
                        ![e_run].clean = @ /\ out # "fetch_failed",
                        ![e_run].seen = IF out = "ok" /\ ~skip
                                        THEN @ \cup {m} ELSE @]
                   /\ UNCHANGED ultima_data
                   /\ IF Tail(ids) # <<>>
                      THEN /\ ids' = Tail(ids)
                           /\ UNCHANGED <<e_pc, pasta, remetente>>
                      ELSE EmailAdvance
    /\ UNCHANGED <<mailbox, today, financeiro, p_vars, a_vars, f_vars, w_vars>>

\* The message loop with a watermark write in every iteration.
EmailMessageSaving ==
    /\ EmailMessageCore
    /\ last_checked' = IF e_last'.outcome = "persisted"
                       THEN salvar_ultima_data(last_checked, max_data_processada')
                       ELSE last_checked

EmailMessage ==
    /\ EmailMessageCore
    /\ UNCHANGED last_checked

EmailLogout ==
    /\ e_pc = "logout"
    /\ e_pc' = "salvar"
    /\ UNCHANGED <<mailbox, last_checked, tables, ultima_data,
                   max_data_processada, pasta, remetente, ids, e_log, e_last,
                   today, p_vars, a_vars, f_vars, w_vars>>

\* Atualiza marca de tempo; the run is over.
EmailSalvar ==
    /\ e_pc = "salvar"
    /\ last_checked' = IF ShouldSave(max_data_processada, ultima_data)
                       THEN salvar_ultima_data(last_checked, max_data_processada)
                       ELSE last_checked
    /\ e_pc' = "idle"
    /\ EmailIdleLocals
    /\ e_log' = [e_log EXCEPT ![e_run].result = "completed"]
    /\ UNCHANGED <<mailbox, tables, e_last, today, p_vars, a_vars, f_vars, w_vars>>

NextEmail ==
    \/ Deliver
    \/ EmailStart
    \/ EmailSearch
    \/ EmailMessage
    \/ EmailLogout
    \/ EmailSalvar

-----------------------------------------------------------------------------
(* The PJe Comunica portal and the publicacoes upsert *)

SCOPE == "pje_comunica"
\* stop_after_attempt(3)
MaxAttempts == 3

\* The offset pytz attaches when tzinfo=TZ is set with datetime.replace: the
\* zone's first entry, local mean time -03:06.
TzReplaceOffset == 0 - (3 * 3600 + 6 * 60)

Card(d, k, dated) ==
    [texto |-> <<d, k>>, data_disponibilizacao |-> IF dated THEN Some(d) ELSE None]

\* The cards the portal shows for day d (the same at every visit): one card,
\* two cards of which one has no readable date field, or none.
PortalCards(d) ==
    IF d % 3 = 1 THEN <<Card(d, 1, TRUE)>>
    ELSE IF d % 3 = 2 THEN <<Card(d, 1, TRUE), Card(d, 2, FALSE)>>
    ELSE <<>>

\* parse_date_br(raw["data_disponibilizacao"]) or date.today()
normalize_record(raw, date_today) ==
    [card |-> raw,
     inicio_prazo |-> IF raw.data_disponibilizacao # None
                      THEN Val(raw.data_disponibilizacao) ELSE date_today]

\* sha256 of processo | inicio | md5(observacoes)[:16]; processo and
\* observacoes are read from the card's text.  Digests are taken to be
\* collision free.
compute_hash(r) == <<r.card.texto, r.inicio_prazo>>

\* run stands for capturado_em: the run that last wrote the row
PubPjeRow(r, run) ==
    [src |-> "pje", msg |-> 0, bloco |-> 0, hash_dedup |-> Some(compute_hash(r)),
     run |-> run]

\* INSERT ... ON CONFLICT (hash_dedup) DO UPDATE of one record
UpsertOne(pubs, r, run) ==
    IF \E i \in DOMAIN pubs : pubs[i].hash_dedup = Some(compute_hash(r))
    THEN [i \in DOMAIN pubs |->
            IF pubs[i].hash_dedup = Some(compute_hash(r))
            THEN PubPjeRow(r, run) ELSE pubs[i]]
    ELSE Append(pubs, PubPjeRow(r, run))

RECURSIVE UpsertAll(_, _, _)
UpsertAll(pubs, recs, run) ==
    IF recs = <<>> THEN pubs
    ELSE UpsertAll(UpsertOne(pubs, Head(recs), run), Tail(recs), run)

\* execute_values rejects a batch that names the same hash_dedup twice
BatchDistinct(recs) ==
    \A i, j \in DOMAIN recs :
        compute_hash(recs[i]) = compute_hash(recs[j]) => i = j

save_records(pubs, recs, run) == UpsertAll(pubs, recs, run)

get_last_checked(lc, scope) ==
    LET hit == SelectSeq(lc, LAMBDA row : row.scope = Some(scope))
    IN IF hit = <<>> THEN None ELSE Head(hit).checked_at

set_last_checked(lc, scope, dt) ==
    IF \E i \in DOMAIN lc : lc[i].scope = Some(scope)
    THEN LET k == CHOOSE i \in DOMAIN lc :
                    /\ lc[i].scope = Some(scope)
                    /\ \A j \in DOMAIN lc : lc[j].scope = Some(scope) => i <= j
         IN [lc EXCEPT ![k].checked_at = Some(dt.utc)]
    ELSE Append(lc, LcRow(Some(scope), Some(dt.utc)))

\* datetime.combine(cur, time(23, 59, 59)).replace(tzinfo=TZ)
EndDt(d) ==
    [utc |-> d * SecondsPerDay + (SecondsPerDay - 1) - TzReplaceOffset,
     off |-> TzReplaceOffset]

-----------------------------------------------------------------------------
(* scrap_pje.run *)

Dry == p_args.dry_run

NoRun == [result |-> "none", failed |-> None, default |-> FALSE,
          fetched |-> <<>>, saved |-> <<>>, marked |-> <<>>]

ScrapeIdleLocals ==
    /\ cur' = 1
    /\ attempts' = 0
    /\ norm' = <<>>

\* the handler with continue for break: the loop goes on to the next day
ScrapeSkipDay ==
    IF cur + 1 <= p_args.to_date
    THEN /\ p_pc' = "fetch"
         /\ cur' = cur + 1
         /\ attempts' = 0
         /\ norm' = <<>>
         /\ p_hist' = [p_hist EXCEPT !.failed = Some(cur)]
    ELSE /\ p_pc' = "idle"
         /\ ScrapeIdleLocals
         /\ p_hist' = [p_hist EXCEPT !.result = "stopped", !.failed = Some(cur)]

\* except Exception: logger.exception(...); break -- the run returns
ScrapeBreak ==
    /\ p_pc' = "idle"
    /\ ScrapeIdleLocals
    /\ p_hist' = [p_hist EXCEPT !.result = "stopped", !.failed = Some(cur)]

\* The wall clock passes midnight (between runs).
Tick ==
    /\ p_pc = "idle"
    /\ today < MaxDay
    /\ today' = today + 1
    /\ UNCHANGED <<mailbox, last_checked, tables, e_vars, p_vars, a_vars, f_vars, w_vars>>

\* the first day being the later of the watermark's day and today
DefaultStartMax(last_dt, hoje) ==
    IF last_dt # None
    THEN Max({LocalDay(AsTimezone([utc |-> Val(last_dt), off |-> 0], FusoBrasil)),
              hoje})
    ELSE hoje

\* start = last_dt.astimezone(TZ).date() if last_dt else today
DefaultStart(last_dt, hoje) ==
    IF last_dt # None
    THEN LocalDay(AsTimezone([utc |-> Val(last_dt), off |-> 0], FusoBrasil))
    ELSE hoje

\* run(from_date, to_date, dry_run) up to the loop: the date range.
ScrapeStart ==
    /\ p_pc = "idle"
    /\ p_runs < MaxScrapeRuns
    /\ p_runs' = p_runs + 1
    /\ \E f \in {None} \cup {Some(d) : d \in Days},
          t \in {None} \cup {Some(d) : d \in Days},
          dry \in BOOLEAN :
        LET last_dt == get_last_checked(last_checked, SCOPE)
            start == DefaultStart(last_dt, today)
            default == f = None /\ t = None
            from_date == IF f # None THEN Val(f) ELSE start
            to_date == IF t # None THEN Val(t) ELSE today
        IN /\ p_args' = [from_date |-> from_date, to_date |-> to_date,
                         dry_run |-> dry]
           /\ IF to_date < from_date
              THEN /\ p_hist' = [NoRun EXCEPT !.result = "ValueError",
                                               !.default = default]
                   /\ p_pc' = "idle"
                   /\ ScrapeIdleLocals
              ELSE /\ p_hist' = [NoRun EXCEPT !.result = "running",
                                               !.default = default]
                   /\ p_pc' = "fetch"
                   /\ cur' = from_date
                   /\ attempts' = 0
                   /\ norm' = <<>>
    /\ UNCHANGED <<mailbox, last_checked, tables, e_vars, a_vars, f_vars, w_vars, today, p_seen>>

\* One attempt of fetch_publicacoes_for_day(cur), then normalize_record of
\* every card.  "records": the marker appeared and the cards were read;
\* "no_marker": wait_for_selector timed out, the day has no records;
\* "error": the attempt raised, and tenacity retries up to MaxAttempts.
ScrapeFetchCore ==
    /\ p_pc = "fetch"
    /\ \E out \in {"records", "no_marker", "error"} :
        /\ out = "records" => PortalCards(cur) # <<>>
        /\ IF out = "error"
           THEN IF attempts + 1 < MaxAttempts
                THEN /\ attempts' = attempts + 1
                     /\ p_hist' = [p_hist EXCEPT !.fetched =
                                    IF attempts = 0 THEN Append(@, cur) ELSE @]
                     /\ UNCHANGED <<p_pc, cur, norm>>
                ELSE /\ ScrapeBreak
           ELSE LET raw == IF out = "records" THEN PortalCards(cur) ELSE <<>>
                IN /\ norm' = [i \in DOMAIN raw |-> normalize_record(raw[i], today)]
                   /\ attempts' = attempts + 1
                   /\ p_pc' = IF Dry THEN "set" ELSE "save"
                   /\ p_hist' = [p_hist EXCEPT !.fetched =
                                    IF attempts = 0 THEN Append(@, cur) ELSE @]
                   /\ UNCHANGED cur
    /\ UNCHANGED <<mailbox, tables, e_vars, a_vars, f_vars, w_vars, today, p_args, p_runs, p_seen>>

\* The fetch with the watermark written as soon as the cards are read.
ScrapeFetchMarking ==
    /\ ScrapeFetchCore
    /\ last_checked' = IF p_pc' \in {"save", "set"}
                       THEN set_last_checked(last_checked, SCOPE, EndDt(cur))
                       ELSE last_checked

ScrapeFetch ==
    /\ ScrapeFetchCore
    /\ UNCHANGED last_checked

RawOf(recs) == [i \in DOMAIN recs |-> recs[i].card]

\* the variant in which a day without records is a failed day
SaveOutcomesEmptyFails(recs) ==
    IF recs = <<>> THEN {FALSE}
    ELSE IF BatchDistinct(recs) THEN BOOLEAN ELSE {FALSE}

\* whether save_records can return: always for the empty list (it returns 0
\* at once), never for a batch that repeats a hash, else the database decides
SaveOutcomes(recs) ==
    IF recs = <<>> THEN {TRUE}
    ELSE IF BatchDistinct(recs) THEN BOOLEAN ELSE {FALSE}

\* inserted = save_records(norm); a database error raises.
ScrapeSave ==
    /\ p_pc = "save"
    /\ \E ok \in SaveOutcomes(norm) :
        /\ IF ok
           THEN /\ publicacoes' = save_records(publicacoes, norm, p_runs)
                /\ p_pc' = "set"
                /\ p_hist' = [p_hist EXCEPT !.saved = Append(@, cur)]
                /\ p_seen' = p_seen \cup {[dia |-> cur, raw |-> RawOf(norm)]}
                /\ UNCHANGED <<cur, attempts, norm>>
           ELSE /\ ScrapeBreak
                /\ UNCHANGED <<publicacoes, p_seen>>
    /\ UNCHANGED <<mailbox, last_checked, andamentos, agenda, financeiro, e_vars, a_vars, f_vars, w_vars, today,
                   p_args, p_runs>>

\* set_last_checked(SCOPE, end_dt); cur += timedelta(days=1); the loop test.
ScrapeSetLastChecked ==
    /\ p_pc = "set"
    /\ \E ok \in BOOLEAN :
        IF ok
        THEN /\ last_checked' = set_last_checked(last_checked, SCOPE, EndDt(cur))
             /\ IF cur + 1 <= p_args.to_date
                THEN /\ p_pc' = "fetch"
                     /\ cur' = cur + 1
                     /\ attempts' = 0
                     /\ norm' = <<>>
                     /\ p_hist' = [p_hist EXCEPT !.marked = Append(@, cur)]
                ELSE /\ p_pc' = "idle"
                     /\ ScrapeIdleLocals
                     /\ p_hist' = [p_hist EXCEPT !.marked = Append(@, cur),
                                                 !.result = "done"]
        ELSE /\ ScrapeBreak
             /\ UNCHANGED last_checked
    /\ UNCHANGED <<mailbox, tables, e_vars, a_vars, f_vars, w_vars, today, p_args, p_runs, p_seen>>

NextScrape ==
    \/ Tick
    \/ ScrapeStart
    \/ ScrapeFetch
    \/ ScrapeSave
    \/ ScrapeSetLastChecked

-----------------------------------------------------------------------------
(* app.py: the form handlers on the rows of the tables, the archive and the  *)
(* calendar (calendar_integration.py).  A row written by a form is a record  *)
(* of its id and its columns; a NULL column is None.  Dates are day numbers. *)

MODELS == {"Andamento", "Agenda"}

\* the columns of Concluida (created_at has a server default)
ConcluidaCols ==
    {"d", "inicio_prazo", "fim_prazo", "dias_restantes", "setor", "cliente",
     "processo", "para_ramon_e_adriana_despacharem", "status",
     "resposta_do_colaborador", "observacoes"}

\* Values a form hands to _save_row for an Andamento (the columns of the
\* class): a filled form, and one with the dates and most fields left empty.
AndamentoValues ==
    {[inicio_prazo |-> Some(1), fim_prazo |-> Some(3),
      dias_restantes |-> Some(2), setor |-> Some("setor"),
      cliente |-> Some("cliente"), processo |-> Some("processo"),
      para_ramon_e_adriana_despacharem |-> Some("despachar"),
      status |-> Some("status"),
      resposta_do_colaborador |-> Some("resposta"),
      observacoes |-> Some("observacoes")],
     [inicio_prazo |-> None, fim_prazo |-> None,
      dias_restantes |-> Some(2), setor |-> Some(""),
      cliente |-> None, processo |-> Some("processo"),
      para_ramon_e_adriana_despacharem |-> None,
      status |-> Some("status"),
      resposta_do_colaborador |-> None,
      observacoes |-> None]}

\* Values a form hands to _save_row for an Agenda row: a filled form, and one
\* without a date.
AgendaValues ==
    {[idx |-> Some(7), data |-> Some(2), horario |-> Some("14:00"),
      status |-> Some("status"), cliente |-> Some("cliente"),
      cliente_avisado |-> Some("avisado"),
      anotado_na_agenda |-> Some("anotado"),
      observacao |-> Some("observacao"),
      numero_processo |-> Some("processo"),
      tipo_audiencia_pericia |-> Some("Audiencia"),
      materia |-> Some("materia"), parte_adversa |-> Some("parte"),
      sistema |-> Some("sistema")],
     [idx |-> None, data |-> None, horario |-> None,
      status |-> Some("status"), cliente |-> Some("cliente"),
      cliente_avisado |-> None, anotado_na_agenda |-> None,
      observacao |-> None, numero_processo |-> Some("processo"),
      tipo_audiencia_pericia |-> Some("Pericia"),
      materia |-> None, parte_adversa |-> None, sistema |-> None]}

FormValues(model) ==
    IF model = "Agenda" THEN AgendaValues ELSE AndamentoValues

\* getattr(rec, name, None)
Getattr(rec, name) == IF name \in DOMAIN rec THEN rec[name] ELSE None

\* x or y, of two dates: a date is never falsy
OrDate(x, y) == IF x # None THEN x ELSE y
\* x or y, of two texts: None and "" are falsy
OrText(x, y) == IF x # None /\ x # Some("") THEN x ELSE y

\* _apply_prazo_logic(inicio_prazo, fim_prazo, dias_restantes), hoje the day
\* datetime.now().date() returns
\* the variant that counts the days from the start of the term
PrazoDesdeInicio(inicio_prazo, fim_prazo, dias_restantes, hoje) ==
    IF inicio_prazo # None /\ fim_prazo # None
    THEN [inicio_prazo |-> inicio_prazo, fim_prazo |-> fim_prazo,
          dias_restantes |-> Some(Val(fim_prazo) - Val(inicio_prazo))]
    ELSE IF inicio_prazo # None /\ dias_restantes # None
    THEN [inicio_prazo |-> inicio_prazo,
          fim_prazo |-> Some(Val(inicio_prazo) + Val(dias_restantes)),
          dias_restantes |-> dias_restantes]
    ELSE [inicio_prazo |-> inicio_prazo, fim_prazo |-> fim_prazo,
          dias_restantes |-> dias_restantes]

_apply_prazo_logic(inicio_prazo, fim_prazo, dias_restantes, hoje) ==
    IF inicio_prazo # None /\ fim_prazo # None
    THEN [inicio_prazo |-> inicio_prazo, fim_prazo |-> fim_prazo,
          dias_restantes |-> Some(Val(fim_prazo) - hoje)]
    ELSE IF inicio_prazo # None /\ dias_restantes # None
    THEN [inicio_prazo |-> inicio_prazo,
          fim_prazo |-> Some(Val(inicio_prazo) + Val(dias_restantes)),
          dias_restantes |-> dias_restantes]
    ELSE [inicio_prazo |-> inicio_prazo, fim_prazo |-> fim_prazo,
          dias_restantes |-> dias_restantes]

\* the first lines of _save_row: a new row without inicio_prazo starts today
SaveValues(rec_id, values, hoje) ==
    IF rec_id = None /\ "inicio_prazo" \in DOMAIN values
                     /\ values.inicio_prazo = None
    THEN _apply_prazo_logic(Some(hoje), Getattr(values, "fim_prazo"),
                            Getattr(values, "dias_restantes"), hoje) @@ values
    ELSE values

\* the archive row made of the columns of the same name only
ArchiveValuesSameName(rec) ==
    [k \in ConcluidaCols |-> Getattr(rec, k)]

\* the dict values of _move_to_concluidas, restricted to the columns of the
\* archive table
ArchiveValues(rec) ==
    LET values ==
        [d |-> OrDate(Getattr(rec, "inicio_prazo"), Getattr(rec, "data")),
         inicio_prazo |-> Getattr(rec, "inicio_prazo"),
         fim_prazo |-> Getattr(rec, "fim_prazo"),
         dias_restantes |-> Getattr(rec, "dias_restantes"),
         setor |-> OrText(Getattr(rec, "setor"), Getattr(rec, "horario")),
         cliente |-> Getattr(rec, "cliente"),
         processo |-> OrText(Getattr(rec, "processo"),
                             Getattr(rec, "numero_processo")),
         para_ramon_e_adriana_despacharem |->
            OrText(Getattr(rec, "para_ramon_e_adriana_despacharem"),
                   Getattr(rec, "anotado_na_agenda")),
         status |-> Getattr(rec, "status"),
         resposta_do_colaborador |->
            OrText(Getattr(rec, "resposta_do_colaborador"),
                   Getattr(rec, "cliente_avisado")),
         observacoes |-> OrText(Getattr(rec, "observacoes"),
                                Getattr(rec, "observacao"))]
    IN [k \in DOMAIN values \cap ConcluidaCols |-> values[k]]

\* the table of a model class
TableOf(model) == IF model = "Agenda" THEN agenda ELSE andamentos
IdsOf(t) == {t[i].id : i \in DOMAIN t}
\* db.query(model).filter(model.id == rec_id).first()
RowById(t, rid) ==
    IF rid \in IdsOf(t)
    THEN Some(t[CHOOSE i \in DOMAIN t : t[i].id = rid]) ELSE None
\* db.query(model).filter(model.id.in_(ids)).delete()
WithoutIds(t, rids) == SelectSeq(t, LAMBDA row : row.id \notin rids)
\* db.query(model).filter(model.id == rec_id).update(values)
Updated(t, rid, values) ==
    [i \in DOMAIN t |-> IF t[i].id = rid THEN values @@ t[i] ELSE t[i]]

\* ascending list of a set of ids
RECURSIVE SortedSeq(_)
SortedSeq(S) ==
    IF S = {} THEN <<>>
    ELSE LET m == CHOOSE x \in S : \A y \in S : x <= y
         IN <<m>> \o SortedSeq(S \ {m})

\* the warning recorded at every failure, repeated or not
ShowEveryWarning(shown, message) ==
    IF message = None \/ message = Some("") THEN shown
    ELSE Append(shown, Val(message))

\* _show_calendar_warning(message) on the list of the session
_show_calendar_warning(shown, message) ==
    IF message = None \/ message = Some("") THEN shown
    ELSE IF \E i \in DOMAIN shown : shown[i] = Val(message) THEN shown
    ELSE Append(shown, Val(message))

\* AgendaCalendarClient._find_existing_event: the first event carrying the
\* record id; an API error is swallowed and gives None.
_find_existing_event(cal, record_id, lookup_ok) ==
    LET hits == {e \in cal : e.rid = record_id}
    IN IF lookup_ok /\ hits # {}
       THEN Some(CHOOSE e \in hits : \A o \in hits : e.event_id <= o.event_id)
       ELSE None

\* AgendaCalendarClient.sync_event(record_id, data).  seq is the number of
\* events created so far; available: _ensure_calendar gave a calendar;
\* lookup_ok: get_events answered; write_ok: add_event/update_event did not
\* raise.
sync_event(cal, seq, record_id, data, available, lookup_ok, write_ok) ==
    IF ~available
    THEN [calendar |-> cal, seq |-> seq, success |-> FALSE,
          message |-> Some("calendario indisponivel")]
    ELSE IF Getattr(data, "data") = None
    THEN [calendar |-> cal, seq |-> seq, success |-> FALSE,
          message |-> Some("Registro da agenda sem data")]
    ELSE IF ~write_ok
    THEN [calendar |-> cal, seq |-> seq, success |-> FALSE,
          message |-> Some("Nao foi possivel sincronizar")]
    ELSE IF _find_existing_event(cal, record_id, lookup_ok) # None
    THEN [calendar |-> cal, seq |-> seq, success |-> TRUE, message |-> None]
    ELSE [calendar |-> cal \cup {[event_id |-> seq + 1, rid |-> record_id]},
          seq |-> seq + 1, success |-> TRUE, message |-> None]

\* AgendaCalendarClient.delete_event(record_id)
delete_event(cal, record_id, available, lookup_ok, write_ok) ==
    LET existing == _find_existing_event(cal, record_id, lookup_ok)
    IN IF ~available
       THEN [calendar |-> cal, success |-> FALSE,
             message |-> Some("calendario indisponivel")]
       ELSE IF existing = None
       THEN [calendar |-> cal, success |-> TRUE, message |-> None]
       ELSE IF ~write_ok
       THEN [calendar |-> cal, success |-> FALSE,
             message |-> Some("Nao foi possivel remover")]
       ELSE [calendar |-> cal \ {Val(existing)}, success |-> TRUE,
             message |-> None]

NoOp == [fn |-> "none", model |-> "none", call |-> "none", pend |-> <<>>,
         payload |-> None, rec |-> None,
         any_failure |-> FALSE, last_message |-> None]
NoEnd == [fn |-> "none", model |-> "none", rid |-> 0, outcome |-> "none",
          cal |-> "none"]
Ended(fn, model, rid, outcome) ==
    [fn |-> fn, model |-> model, rid |-> rid, outcome |-> outcome,
     cal |-> "none"]

\* the ids a form can name: those handed out so far, and one never handed out
RecIds(model) == 1..(a_seq[model] + 1)

\* after the commit: the calendar call when the model is Agenda
ThenCalendar(fn, model, call, pend, payload) ==
    IF model = "Agenda" /\ pend # <<>>
    THEN /\ a_pc' = "calendar"
         /\ a_op' = [NoOp EXCEPT !.fn = fn, !.model = model, !.call = call,
                                 !.pend = pend, !.payload = payload]
    ELSE /\ a_pc' = "idle"
         /\ a_op' = NoOp

\* _save_row(model, rec_id, values) up to the end of the with block; ok: the
\* commit did not raise.
AppSave ==
    /\ a_pc = "idle"
    /\ a_n < MaxAppOps
    /\ a_n' = a_n + 1
    /\ \E model \in MODELS, ok \in BOOLEAN :
       \E rec_id \in {None} \cup {Some(i) : i \in RecIds(model)},
          form \in FormValues(model) :
        LET values == SaveValues(rec_id, form, today)
            t == TableOf(model)
            new_id == IF rec_id # None THEN Val(rec_id) ELSE a_seq[model] + 1
            t1 == IF rec_id # None THEN Updated(t, new_id, values)
                  ELSE Append(t, [id |-> new_id] @@ values)
            record == RowById(t1, new_id)
        IN IF ok
           THEN /\ IF model = "Agenda"
                   THEN agenda' = t1 /\ UNCHANGED andamentos
                   ELSE andamentos' = t1 /\ UNCHANGED agenda
                /\ a_seq' = IF rec_id = None
                            THEN [a_seq EXCEPT ![model] = new_id] ELSE a_seq
                /\ a_last' = Ended("save", model, new_id, "committed")
                /\ ThenCalendar("save", model, "sync",
                                IF record # None THEN <<new_id>> ELSE <<>>,
                                record)
           ELSE /\ a_last' = Ended("save", model, new_id, "db_error")
                /\ a_pc' = "idle"
                /\ a_op' = NoOp
                /\ UNCHANGED <<andamentos, agenda, a_seq>>
    /\ UNCHANGED <<mailbox, last_checked, publicacoes, financeiro, e_vars, today, p_vars, f_vars, w_vars,
                   concluidas, calendar, warnings, cal_log>>

\* _delete_row(model, rec_id) up to the end of the with block
AppDelete ==
    /\ a_pc = "idle"
    /\ a_n < MaxAppOps
    /\ a_n' = a_n + 1
    /\ \E model \in MODELS, ok \in BOOLEAN :
       \E rec_id \in RecIds(model) :
        IF ok
        THEN /\ IF model = "Agenda"
                THEN agenda' = WithoutIds(agenda, {rec_id})
                     /\ UNCHANGED andamentos
                ELSE andamentos' = WithoutIds(andamentos, {rec_id})
                     /\ UNCHANGED agenda
             /\ a_last' = Ended("delete", model, rec_id, "committed")
             /\ ThenCalendar("delete", model, "delete", <<rec_id>>, None)
        ELSE /\ a_last' = Ended("delete", model, rec_id, "db_error")
             /\ a_pc' = "idle"
             /\ a_op' = NoOp
             /\ UNCHANGED <<andamentos, agenda>>
    /\ UNCHANGED <<mailbox, last_checked, publicacoes, financeiro, e_vars, today, p_vars, f_vars, w_vars,
                   concluidas, calendar, warnings, a_seq, cal_log>>

\* _delete_rows(model, ids) up to the end of the with block
AppDeleteRows ==
    /\ a_pc = "idle"
    /\ a_n < MaxAppOps
    /\ a_n' = a_n + 1
    /\ \E model \in MODELS, ok \in BOOLEAN :
       \E rids \in (SUBSET RecIds(model)) \ {{}} :
        IF ok
        THEN /\ IF model = "Agenda"
                THEN agenda' = WithoutIds(agenda, rids)
                     /\ UNCHANGED andamentos
                ELSE andamentos' = WithoutIds(andamentos, rids)
                     /\ UNCHANGED agenda
             /\ a_last' = Ended("delete_rows", model, 0, "committed")
             /\ ThenCalendar("delete_rows", model, "delete",
                             SortedSeq(rids), None)
        ELSE /\ a_last' = Ended("delete_rows", model, 0, "db_error")
             /\ a_pc' = "idle"
             /\ a_op' = NoOp
             /\ UNCHANGED <<andamentos, agenda>>
    /\ UNCHANGED <<mailbox, last_checked, publicacoes, financeiro, e_vars, today, p_vars, f_vars, w_vars,
                   concluidas, calendar, warnings, a_seq, cal_log>>

\* _move_to_concluidas(model, rec_id): the session opens and reads the row;
\* no row of that id, the handler returns.
MoveBegin ==
    /\ a_pc = "idle"
    /\ a_n < MaxAppOps
    /\ a_n' = a_n + 1
    /\ \E model \in MODELS :
       \E rec_id \in RecIds(model) :
        LET rec == RowById(TableOf(model), rec_id)
        IN IF rec = None
           THEN /\ a_last' = Ended("move", model, rec_id, "missing")
                /\ a_pc' = "idle"
                /\ a_op' = NoOp
           ELSE /\ a_last' = Ended("move", model, rec_id, "running")
                /\ a_pc' = "insert"
                /\ a_op' = [NoOp EXCEPT !.fn = "move", !.model = model,
                                        !.pend = <<rec_id>>, !.rec = rec]
    /\ UNCHANGED <<mailbox, last_checked, tables, e_vars, today, p_vars, f_vars, w_vars,
                   concluidas, calendar, warnings, a_seq, cal_log>>

\* an exception inside the with block: the session closes without a commit
MoveRollback ==
    /\ a_pc' = "idle"
    /\ a_op' = NoOp
    /\ a_last' = [a_last EXCEPT !.outcome = "rolled_back"]

\* db.execute(text("INSERT INTO concluidas ...")) in the open transaction
MoveInsertCore ==
    /\ a_pc = "insert"
    /\ \E ok \in BOOLEAN :
        IF ok THEN a_pc' = "delete" /\ UNCHANGED <<a_op, a_last>>
        ELSE MoveRollback
    /\ UNCHANGED <<mailbox, last_checked, tables, e_vars, today, p_vars, f_vars, w_vars,
                   calendar, warnings, a_n, cal_log>>

\* the INSERT committed as soon as it is executed
MoveInsertAutocommit ==
    /\ MoveInsertCore
    /\ IF a_pc' = "delete"
       THEN /\ concluidas' = Append(concluidas,
                    [id |-> a_seq.Concluida + 1] @@ ArchiveValues(Val(a_op.rec)))
            /\ a_seq' = [a_seq EXCEPT !.Concluida = @ + 1]
       ELSE UNCHANGED <<concluidas, a_seq>>

MoveInsert ==
    /\ MoveInsertCore
    /\ UNCHANGED <<concluidas, a_seq>>

\* db.query(model).filter(model.id == rec_id).delete() in the transaction
MoveDelete ==
    /\ a_pc = "delete"
    /\ \E ok \in BOOLEAN :
        IF ok THEN a_pc' = "commit" /\ UNCHANGED <<a_op, a_last>>
        ELSE MoveRollback
    /\ UNCHANGED <<mailbox, last_checked, tables, e_vars, today, p_vars, f_vars, w_vars,
                   concluidas, calendar, warnings, a_n, a_seq, cal_log>>

\* db.commit(): the insert and the delete become visible together.
MoveCommit ==
    /\ a_pc = "commit"
    /\ \E ok \in BOOLEAN :
        LET rec == Val(a_op.rec)
        IN IF ok
           THEN /\ concluidas' = Append(concluidas,
                        [id |-> a_seq.Concluida + 1] @@ ArchiveValues(rec))
                /\ IF a_op.model = "Agenda"
                   THEN agenda' = WithoutIds(agenda, {rec.id})
                        /\ UNCHANGED andamentos
                   ELSE andamentos' = WithoutIds(andamentos, {rec.id})
                        /\ UNCHANGED agenda
                /\ a_seq' = [a_seq EXCEPT !.Concluida = @ + 1]
                /\ a_last' = [a_last EXCEPT !.outcome = "committed"]
                /\ ThenCalendar("move", a_op.model, "delete", <<rec.id>>, None)
           ELSE /\ MoveRollback
                /\ UNCHANGED <<concluidas, andamentos, agenda, a_seq>>
    /\ UNCHANGED <<mailbox, last_checked, publicacoes, financeiro, e_vars, today, p_vars, f_vars, w_vars,
                   calendar, warnings, a_n, cal_log>>

\* sync_agenda_event(new_id, calendar_payload) and the warning, the end of
\* _save_row
AppCalendarSync ==
    /\ a_pc = "calendar"
    /\ a_op.call = "sync"
    /\ \E available, lookup_ok, write_ok \in BOOLEAN :
        LET rid == Head(a_op.pend)
            r == sync_event(calendar, a_seq.Event, rid, Val(a_op.payload),
                            available, lookup_ok, write_ok)
        IN /\ calendar' = r.calendar
           /\ a_seq' = [a_seq EXCEPT !.Event = r.seq]
           /\ warnings' = IF r.success THEN warnings
                          ELSE _show_calendar_warning(warnings, r.message)
           /\ cal_log' = cal_log \cup {[call |-> "sync", rid |-> rid]}
           /\ a_last' = [a_last EXCEPT
                            !.cal = IF r.success THEN "ok" ELSE "failed"]
    /\ a_pc' = "idle"
    /\ a_op' = NoOp
    /\ UNCHANGED <<mailbox, last_checked, tables, e_vars, today, p_vars, f_vars, w_vars,
                   concluidas, a_n>>

\* delete_agenda_event(rec_id), or one turn of the loop of delete_events,
\* and after the last id the warning: the end of _delete_row, _delete_rows
\* and _move_to_concluidas
AppCalendarDelete ==
    /\ a_pc = "calendar"
    /\ a_op.call = "delete"
    /\ \E available, lookup_ok, write_ok \in BOOLEAN :
        LET rid == Head(a_op.pend)
            r == delete_event(calendar, rid, available, lookup_ok, write_ok)
            any_failure == a_op.any_failure \/ ~r.success
            last_message == IF r.success THEN a_op.last_message ELSE r.message
        IN /\ calendar' = r.calendar
           /\ cal_log' = cal_log \cup {[call |-> "delete", rid |-> rid]}
           /\ IF Tail(a_op.pend) # <<>>
              THEN /\ a_op' = [a_op EXCEPT !.pend = Tail(@),
                                           !.any_failure = any_failure,
                                           !.last_message = last_message]
                   /\ UNCHANGED <<a_pc, warnings, a_last>>
              ELSE /\ warnings' = IF any_failure
                                  THEN _show_calendar_warning(warnings,
                                                              last_message)
                                  ELSE warnings
                   /\ a_last' = [a_last EXCEPT
                            !.cal = IF any_failure THEN "failed" ELSE "ok"]
                   /\ a_pc' = "idle"
                   /\ a_op' = NoOp
    /\ UNCHANGED <<mailbox, last_checked, tables, e_vars, today, p_vars, f_vars, w_vars,
                   concluidas, a_n, a_seq>>

NextApp ==
    \/ AppSave
    \/ AppDelete
    \/ AppDeleteRows
    \/ MoveBegin
    \/ MoveInsert
    \/ MoveDelete
    \/ MoveCommit
    \/ AppCalendarSync
    \/ AppCalendarDelete

-----------------------------------------------------------------------------
(* scrap_email.py: the extraction functions.  A text is a sequence of        *)
(* characters; "^2" stands for a character such as SUPERSCRIPT TWO, which    *)
(* str.isdigit() accepts and the regex class \d does not.                    *)

NoCall == [fn |-> "none", arg |-> <<>>]

\* str.isdigit() of one character
isdigit(c) == c \in {"0", "1", "2", "3", "4", "5", "6", "7", "8", "9", "^2"}
\* the class \d of re (str pattern)
IsDecimal(c) == c \in {"0", "1", "2", "3", "4", "5", "6", "7", "8", "9"}

\* match_proc(i) of extrair_numero_processo_do_corpo, i counted from 0: the
\* pieces are taken in turn from position j, take_digits(k) or a separator;
\* the result is the text rebuilt from the pieces, None when one does not
\* fit.
take_digits(k) == [digits |-> k]
Separator(c) == [sep |-> c]

RECURSIVE TakePieces(_, _, _, _)
TakePieces(s, j, pieces, got) ==
    IF pieces = <<>> THEN Some(got)
    ELSE LET p == Head(pieces)
         IN IF "digits" \in DOMAIN p
            THEN IF j + p.digits > Len(s)
                    \/ \E q \in (j + 1)..(j + p.digits) : ~isdigit(s[q])
                 THEN None
                 ELSE TakePieces(s, j + p.digits, Tail(pieces),
                                 got \o SubSeq(s, j + 1, j + p.digits))
            ELSE IF j >= Len(s) \/ s[j + 1] # p.sep
                 THEN None
                 ELSE TakePieces(s, j + 1, Tail(pieces), got \o <<p.sep>>)

match_proc(s, i) ==
    TakePieces(s, i,
               <<take_digits(7), Separator("-"), take_digits(2),
                 Separator("."), take_digits(4), Separator("."),
                 take_digits(1), Separator("."), take_digits(2),
                 Separator("."), take_digits(4)>>,
               <<>>)

\* the loop: i = 0; while i < n - 24: ...; i += 1
RECURSIVE ScanFrom(_, _)
ScanFrom(s, i) ==
    IF ~(i < Len(s) - 24) THEN <<>>
    ELSE IF isdigit(s[i + 1]) /\ match_proc(s, i) # None
    THEN Val(match_proc(s, i))
    ELSE ScanFrom(s, i + 1)

extrair_numero_processo_do_corpo(texto) ==
    IF texto = <<>> THEN <<>> ELSE ScanFrom(texto, 0)

\* CNJ_REGEX = \d{7}-\d{2}\.\d{4}\.\d\.\d{2}\.\d{4}: the positions of the
\* separators in a match, the others being \d
CnjSeparators == (8 :> "-") @@ (11 :> ".") @@ (16 :> ".") @@ (18 :> ".")
                    @@ (21 :> ".")
CnjLength == 7 + 1 + 2 + 1 + 4 + 1 + 1 + 1 + 2 + 1 + 4
CnjMatchesAt(s, i) ==
    /\ i + CnjLength <= Len(s)
    /\ \A k \in 1..CnjLength :
        IF k \in DOMAIN CnjSeparators THEN s[i + k] = CnjSeparators[k]
        ELSE IsDecimal(s[i + k])
\* CNJ_REGEX.search(s): group(0) of the leftmost match, "" when none
CnjRegexSearch(s) ==
    LET at == {i \in 0..Len(s) : CnjMatchesAt(s, i)}
    IN IF at = {} THEN <<>>
       ELSE SubSeq(s, (CHOOSE i \in at : \A o \in at : i <= o) + 1,
                   (CHOOSE i \in at : \A o \in at : i <= o) + CnjLength)

\* The texts of the calls: a process number with at most one character
\* replaced or removed, between a prefix and a suffix of at most MaxAffix
\* characters.
CnjSample ==
    <<"1", "2", "3", "4", "5", "6", "7", "-", "1", "2", ".", "2", "0", "2",
      "4", ".", "8", ".", "1", "9", ".", "0", "0", "0", "1">>
Chars == {"9", "^2", "-", ".", "x"}
Affixes == UNION {[1..n -> {"9", "x"}] : n \in 0..MaxAffix}
Replaced(s, k, c) == [i \in DOMAIN s |-> IF i = k THEN c ELSE s[i]]
Removed(s, k) == SubSeq(s, 1, k - 1) \o SubSeq(s, k + 1, Len(s))
CnjCores ==
    {CnjSample}
        \cup {Replaced(CnjSample, k, c) : k \in DOMAIN CnjSample, c \in Chars}
        \cup {Removed(CnjSample, k) : k \in DOMAIN CnjSample}
CnjTexts ==
    {<<>>} \cup {pre \o core \o suf :
                    pre \in Affixes, core \in CnjCores, suf \in Affixes}

\* numero_processo = extrair_numero_processo_do_corpo(corpo)
CallExtrairNumero ==
    /\ f_call = NoCall
    /\ \E texto \in CnjTexts :
        /\ f_call' = [fn |-> "extrair_numero_processo_do_corpo", arg |-> texto]
        /\ f_ret' = Some(extrair_numero_processo_do_corpo(texto))
    /\ UNCHANGED <<mailbox, last_checked, tables, e_vars, today, p_vars,
                   a_vars, w_vars>>

NextCnj == CallExtrairNumero

-----------------------------------------------------------------------------
(* Hearing / exam detection: scrap_email.detectar_audiencia_pericia and its
   twin app._detect_audiencia_pericia.  A text is a sequence of characters;
   the two combining marks stand for U+0302 and U+0301. *)

MaxWords == 3

\* the characters that encode("ASCII", "ignore") drops: the combining marks
\* and the dash U+2013
NonAscii == {"COMBINING CIRCUMFLEX", "COMBINING ACUTE", "EN DASH"}

\* unicodedata.normalize("NFKD", s), one character at a time
Nfkd(c) ==
    CASE c = "ê" -> <<"e", "COMBINING CIRCUMFLEX">>
      [] c = "Ê" -> <<"E", "COMBINING CIRCUMFLEX">>
      [] c = "í" -> <<"i", "COMBINING ACUTE">>
      [] c = "Í" -> <<"I", "COMBINING ACUTE">>
      [] c = "á" -> <<"a", "COMBINING ACUTE">>
      [] c = "Á" -> <<"A", "COMBINING ACUTE">>
      [] OTHER -> <<c>>

\* str.lower() on the letters the texts use
Lower(c) ==
    CASE c = "A" -> "a" [] c = "C" -> "c" [] c = "D" -> "d" [] c = "E" -> "e"
      [] c = "H" -> "h" [] c = "I" -> "i" [] c = "L" -> "l" [] c = "N" -> "n"
      [] c = "P" -> "p"
      [] c = "R" -> "r" [] c = "U" -> "u" [] c = "V" -> "v" [] c = "Á" -> "á"
      [] OTHER -> c

\* NFKD, then the ASCII characters of it, then lower case; the text is
\* converted half by half
RECURSIVE normalizar(_)
normalizar(s) ==
    IF s = <<>> THEN <<>>
    ELSE IF Len(s) = 1
    THEN LET ascii == SelectSeq(Nfkd(s[1]), LAMBDA c : c \notin NonAscii)
         IN  [i \in DOMAIN ascii |-> Lower(ascii[i])]
    ELSE normalizar(SubSeq(s, 1, Len(s) \div 2))
            \o normalizar(SubSeq(s, (Len(s) \div 2) + 1, Len(s)))

\* str.find(needle): the least 0-based index of an occurrence, -1 if none
Find(s, needle) ==
    LET hits == {i \in 0..(Len(s) - Len(needle)) :
                    SubSeq(s, i + 1, i + Len(needle)) = needle}
    IN  IF hits = {} THEN 0 - 1 ELSE CHOOSE i \in hits : \A j \in hits : i <= j

Contains(s, needle) == Find(s, needle) >= 0

AUDIENCIA == <<"a", "u", "d", "i", "e", "n", "c", "i", "a">>
PERICIA == <<"p", "e", "r", "i", "c", "i", "a">>

\* the variant that lets the earlier of the two words decide
DetectarPorPosicao(texto) ==
    LET tl == normalizar(texto)
        a == Find(tl, AUDIENCIA)
        p == Find(tl, PERICIA)
    IN  IF a >= 0 /\ (p < 0 \/ a < p) THEN Some("audiencia")
        ELSE IF p >= 0 THEN Some("pericia")
        ELSE None

detectar_audiencia_pericia(texto) ==
    LET tl == normalizar(texto)
    IN  IF Contains(tl, AUDIENCIA) THEN Some("audiencia")
        ELSE IF Contains(tl, PERICIA) THEN Some("pericia")
        ELSE None

\* app.py: None for a missing text, the accented labels otherwise
_detect_audiencia_pericia(text) ==
    IF text = None THEN None
    ELSE LET val == normalizar(Val(text))
         IN  IF Contains(val, AUDIENCIA) THEN Some("Audiência")
             ELSE IF Contains(val, PERICIA) THEN Some("Perícia")
             ELSE None

DetectWords ==
    { <<"A", "u", "d", "i", "ê", "n", "c", "i", "a">>,
      <<"A", "U", "D", "I", "E", "N", "C", "I", "A">>,
      <<"P", "e", "r", "í", "c", "i", "a">>,
      <<"p", "e", "r", "i", "c", "i", "a">>,
      <<"a", "u", "d", "i">>,
      <<" ">> }

RECURSIVE Flatten(_)
Flatten(ws) == IF ws = <<>> THEN <<>> ELSE Head(ws) \o Flatten(Tail(ws))

DetectTexts ==
    {Flatten(ws) : ws \in UNION {[1..n -> DetectWords] : n \in 0..MaxWords}}

\* _tipo_ap = detectar_audiencia_pericia(corpo)
CallDetectar ==
    /\ f_call = NoCall
    /\ \E texto \in DetectTexts :
        /\ f_call' = [fn |-> "detectar_audiencia_pericia", arg |-> texto]
        /\ f_ret' = Some(detectar_audiencia_pericia(texto))
    /\ UNCHANGED <<mailbox, last_checked, tables, e_vars, today, p_vars,
                   a_vars, w_vars>>

\* tipo_ap = _detect_audiencia_pericia(resposta_do_colaborador)
CallDetect ==
    /\ f_call = NoCall
    /\ \E text \in {None} \cup {Some(t) : t \in DetectTexts} :
        /\ f_call' = [fn |-> "_detect_audiencia_pericia", arg |-> text]
        /\ f_ret' = Some(_detect_audiencia_pericia(text))
    /\ UNCHANGED <<mailbox, last_checked, tables, e_vars, today, p_vars,
                   a_vars, w_vars>>

NextDetect == CallDetectar \/ CallDetect

-----------------------------------------------------------------------------
(* Sector classification: scrap_email.checar_palavra_chave *)

PALAVRAS_CHAVE ==
    << <<"r", "p", "v">>,
       <<"a", "l", "v", "a", "r", "á">>,
       <<"a", "l", "v", "a", "r", "a">>,
       <<"p", "r", "e", "c", "a", "t", "ó", "r", "i", "o">>,
       <<"p", "r", "e", "c", "a", "t", "o", "r", "i", "o">>,
       <<"a", "c", "o", "r", "d", "o", " ", "h", "o", "m", "o", "l", "o", "g", "a", "d", "o">>,
       <<"e", "x", "p", "e", "d", "i", "ç", "ã", "o", " ", "d", "e", " ", "r", "p", "v">>,
       <<"e", "x", "p", "e", "d", "i", "c", "a", "o", " ", "d", "e", " ", "r", "p", "v">>,
       <<"e", "x", "p", "e", "d", "i", "d", "o">>,
       <<"p", "a", "g", "a", "m", "e", "n", "t", "o">> >>

str_lower(s) == [i \in DOMAIN s |-> Lower(s[i])]

\* the variant that compares without lower-casing the text
ChecarSemLower(corpo) ==
    LET corpo_lower == IF corpo = None THEN <<>> ELSE Val(corpo)
    IN  IF \E k \in DOMAIN PALAVRAS_CHAVE :
                Contains(corpo_lower, PALAVRAS_CHAVE[k])
        THEN "Setor Financeiro" ELSE "Taina"

checar_palavra_chave(corpo) ==
    LET corpo_lower == str_lower(IF corpo = None THEN <<>> ELSE Val(corpo))
    IN  IF \E k \in DOMAIN PALAVRAS_CHAVE :
                Contains(corpo_lower, PALAVRAS_CHAVE[k])
        THEN "Setor Financeiro" ELSE "Taina"

KeywordWords ==
    { <<"A", "L", "V", "A", "R", "Á">>,
      <<"A", "l", "v", "a", "r", "a">>,
      <<"R", "P", "V">>,
      <<"P", "a", "g", "a", "m", "e", "n", "t", "o">>,
      <<"a", "c", "o", "r", "d", "o">>,
      <<" ">>,
      <<"h", "o", "m", "o", "l", "o", "g", "a", "d", "o">>,
      <<"e", "x", "p", "e", "d", "i">> }

KeywordTexts ==
    {Flatten(ws) : ws \in UNION {[1..n -> KeywordWords] : n \in 0..MaxWords}}

\* valor_coluna_c = checar_palavra_chave(corpo)
CallChecar ==
    /\ f_call = NoCall
    /\ \E corpo \in {None} \cup {Some(t) : t \in KeywordTexts} :
        /\ f_call' = [fn |-> "checar_palavra_chave", arg |-> corpo]
        /\ f_ret' = Some(checar_palavra_chave(corpo))
    /\ UNCHANGED <<mailbox, last_checked, tables, e_vars, today, p_vars,
                   a_vars, w_vars>>

NextChecar == CallChecar

-----------------------------------------------------------------------------
(* The deadline rule on its own: the form handlers of app.py hand it the
   three widgets' values.  Day n stands for 2024-01-09 plus n days. *)

MaxPrazoDay == 6

PrazoDates == {None} \cup {Some(d) : d \in 1..MaxPrazoDay}
PrazoDias == {None} \cup {Some(n) : n \in 0..MaxPrazoDay}

\* inicio_prazo, fim_prazo, dias_restantes = _apply_prazo_logic(...)
CallApplyPrazo ==
    /\ f_call = NoCall
    /\ \E inicio_prazo \in PrazoDates, fim_prazo \in PrazoDates,
          dias_restantes \in PrazoDias, hoje \in 1..MaxPrazoDay :
        /\ f_call' = [fn |-> "_apply_prazo_logic",
                      arg |-> [inicio_prazo |-> inicio_prazo,
                               fim_prazo |-> fim_prazo,
                               dias_restantes |-> dias_restantes,
                               hoje |-> hoje]]
        /\ f_ret' = Some(_apply_prazo_logic(inicio_prazo, fim_prazo,
                                            dias_restantes, hoje))
    /\ UNCHANGED <<mailbox, last_checked, tables, e_vars, today, p_vars,
                   a_vars, w_vars>>

NextPrazo == CallApplyPrazo

-----------------------------------------------------------------------------
(* The digest branch of the message loop with the body's text spelled out.
   A body is a sequence of pieces of text:
     "NL" a newline, "PUB" the words "Publicação: <digits>",
     "DATA" "Data de Publicação: <date>", "PROC" "PROCESSO: <number>",
     "EDITAL" words of the election/appointment list,
     "FIM" the words "Acesso ao documento:". *)

MaxTokens == 6

DigestTokens == {"NL", "PUB", "DATA", "PROC", "EDITAL", "FIM"}
DigestBodies == UNION {[1..n -> DigestTokens] : n \in 0..MaxTokens}

Has(texto, tok) == \E i \in DOMAIN texto : texto[i] = tok

\* \s* from position i: the first position that is not whitespace
RECURSIVE SkipWhitespace(_, _)
SkipWhitespace(s, i) ==
    IF i <= Len(s) /\ s[i] = "NL" THEN SkipWhitespace(s, i + 1) ELSE i

\* the variant that takes the words "Publicação: N" as a delimiter wherever
\* they stand
DelimiterAnywhere(s, i) ==
    LET j == SkipWhitespace(s, i)
    IN  j <= Len(s) /\ s[j] = "PUB"

\* r"\n\s*Publicação:\s*\d+\s*" matches at position i
DelimiterAt(s, i) ==
    /\ s[i] = "NL"
    /\ LET j == SkipWhitespace(s, i)
       IN  j <= Len(s) /\ s[j] = "PUB"

\* re.split: the pieces between the successive leftmost matches
RECURSIVE ReSplit(_, _, _)
ReSplit(s, i, bloco) ==
    IF i > Len(s) THEN <<bloco>>
    ELSE IF DelimiterAt(s, i)
    THEN <<bloco>> \o ReSplit(s, SkipWhitespace(s, SkipWhitespace(s, i) + 1), <<>>)
    ELSE ReSplit(s, i + 1, Append(bloco, s[i]))

FirstIndex(texto, tok, from) ==
    LET hits == {i \in from..Len(texto) : texto[i] = tok}
    IN  IF hits = {} THEN Len(texto) + 1
        ELSE CHOOSE i \in hits : \A j \in hits : i <= j

\* (PROCESSO:.*?)(Acesso ao documento:|Identificador do documento:|$),
\* the whole block when the block has no "PROCESSO:"
EventoDe(bloco) ==
    IF Has(bloco, "PROC")
    THEN LET p == FirstIndex(bloco, "PROC", 1)
         IN  SubSeq(bloco, p, FirstIndex(bloco, "FIM", p) - 1)
    ELSE bloco

RecortePublicacoes(corpo) ==
    LET blocos == Tail(ReSplit(corpo, 1, <<>>))
        com_dados == SelectSeq(blocos,
                        LAMBDA b : Has(b, "PROC") \/ Has(b, "DATA"))
    IN  [k \in DOMAIN com_dados |->
            [data |-> Has(com_dados[k], "DATA"),
             processo |-> Has(com_dados[k], "PROC"),
             evento |-> EventoDe(com_dados[k])]]

EditalNoTexto(texto) == Has(texto, "EDITAL")

PubDigestRow(pub) ==
    [src |-> "email", inicio_prazo |-> pub.data, processo |-> pub.processo,
     observacoes |-> pub.evento]

\* one iteration of the message loop for a digest email: the rows are added
\* in one session and committed once; an exception before the commit leaves
\* nothing behind
DigestMessage ==
    /\ f_call = NoCall
    /\ \E corpo \in DigestBodies, out \in {"commit", "raise"} :
        LET pubs == RecortePublicacoes(corpo)
            kept == SelectSeq(pubs, LAMBDA pub : ~EditalNoTexto(pub.evento))
        IN  /\ f_call' = [fn |-> "processar_recorte_publicacao", arg |-> corpo]
            /\ f_ret' = Some(IF pubs = <<>> THEN "continue" ELSE out)
            /\ publicacoes' =
                    IF out = "commit"
                    THEN publicacoes \o [k \in DOMAIN kept |-> PubDigestRow(kept[k])]
                    ELSE publicacoes
    /\ UNCHANGED <<mailbox, last_checked, andamentos, agenda, financeiro, e_vars, today,
                   p_vars, a_vars, w_vars>>

NextRecorte == DigestMessage

-----------------------------------------------------------------------------
(* fetch_publicacoes_for_day inside the browser: the wait for the results
   marker and the scroll loop.  The page holds page_cards result cards and
   loads more of them, up to MaxCards, while it is scrolled. *)

MaxCards == 4

\* the variant that also stops at once on a page without cards
LoopExitsOnEmpty(count, last) == count = last \/ count = 0

\* if count == last_count: break
LoopExits(count, last) == count = last

\* page.goto(url); page.wait_for_selector(marker): a timeout returns the
\* empty list of records, else the loop starts with last_count = -1
FetchGoto ==
    /\ w_pc = "idle"
    /\ \E marker \in BOOLEAN, n \in 0..MaxCards :
        /\ ~marker => n = 0
        /\ page_cards' = n
        /\ w_pc' = IF marker THEN "poll" ELSE "returned"
    /\ last_count' = 0 - 1
    /\ counts' = <<>>
    /\ UNCHANGED <<mailbox, last_checked, tables, e_vars, today, p_vars,
                   a_vars, f_vars>>

\* one iteration of the while True loop: count the cards, leave when the
\* count is the previous one, else remember it, scroll and sleep
FetchPoll ==
    /\ w_pc = "poll"
    /\ LET count == page_cards
       IN  /\ counts' = Append(counts, count)
           /\ IF LoopExits(count, last_count)
              THEN /\ w_pc' = "extract"
                   /\ UNCHANGED <<last_count, page_cards>>
              ELSE /\ last_count' = count
                   /\ \E loaded \in page_cards..MaxCards : page_cards' = loaded
                   /\ UNCHANGED w_pc
    /\ UNCHANGED <<mailbox, last_checked, tables, e_vars, today, p_vars,
                   a_vars, f_vars>>

\* the cards are read and the records returned
FetchExtract ==
    /\ w_pc = "extract"
    /\ w_pc' = "returned"
    /\ UNCHANGED <<page_cards, last_count, counts>>
    /\ UNCHANGED <<mailbox, last_checked, tables, e_vars, today, p_vars,
                   a_vars, f_vars>>

NextScroll == FetchGoto \/ FetchPoll \/ FetchExtract

-----------------------------------------------------------------------------
(* The date and the time of a hearing or exam:
   scrap_email.extrair_data_hora_evento and the scanners it calls.  Texts
   are sequences of characters as in the detection above. *)

MaxPieces == 4

Min2(a, b) == IF a <= b THEN a ELSE b

\* s[a:b] for b >= 0 and any a, a negative a counting from the end
PySlice(s, a, b) ==
    LET lo == IF a < 0 THEN Max({Len(s) + a, 0}) ELSE a
    IN  SubSeq(s, lo + 1, Min2(b, Len(s)))

\* str.isalnum() on the characters the texts use
isalnum(c) == c \notin {" ", "/", ":", "CR"} \cup NonAscii

\* str.isdigit() of a string
IsDigits(s) == s # <<>> /\ \A i \in DOMAIN s : isdigit(s[i])

DigitChars == <<"0", "1", "2", "3", "4", "5", "6", "7", "8", "9">>

\* int(s) for a string of decimal digits
RECURSIVE ToInt(_)
ToInt(s) ==
    IF s = <<>> THEN 0
    ELSE 10 * ToInt(SubSeq(s, 1, Len(s) - 1))
            + (CHOOSE d \in 0..9 : DigitChars[d + 1] = s[Len(s)])

\* f"{h:02d}:{m:02d}"
FormatTime(h, m) ==
    <<DigitChars[(h \div 10) + 1], DigitChars[(h % 10) + 1], ":",
      DigitChars[(m \div 10) + 1], DigitChars[(m % 10) + 1]>>

\* s.split(c)[0] and s.split(c)[1]
SplitFirst(s, c) == SubSeq(s, 1, FirstIndex(s, c, 1) - 1)
SplitSecond(s, c) ==
    LET i == FirstIndex(s, c, 1)
    IN  SubSeq(s, i + 1, FirstIndex(s, c, i + 1) - 1)

\* s.replace(sub, "")
RECURSIVE StrRemove(_, _)
StrRemove(s, sub) ==
    IF Len(s) < Len(sub) THEN s
    ELSE IF SubSeq(s, 1, Len(sub)) = sub
    THEN StrRemove(SubSeq(s, Len(sub) + 1, Len(s)), sub)
    ELSE <<Head(s)>> \o StrRemove(Tail(s), sub)

_scan_date_simple(window) ==
    LET hits == {i \in 0..(Len(window) - 10) :
                    /\ IsDigits(SubSeq(window, i + 1, i + 2))
                    /\ window[i + 3] = "/"
                    /\ IsDigits(SubSeq(window, i + 4, i + 5))
                    /\ window[i + 6] = "/"
                    /\ IsDigits(SubSeq(window, i + 7, i + 10))}
    IN  IF hits = {} THEN <<>>
        ELSE LET i == CHOOSE i \in hits : \A j \in hits : i <= j
             IN  SubSeq(window, i + 1, i + 10)

_std_time_token(tok) ==
    LET t == SelectSeq(tok, LAMBDA c : c # " ")
        tl == normalizar(t)
        by_h ==
            IF Has(tl, "h") /\ IsDigits(SplitFirst(tl, "h"))
            THEN LET h == ToInt(SplitFirst(tl, "h"))
                     m_part == StrRemove(StrRemove(SplitSecond(tl, "h"),
                                                   <<"m", "i", "n">>), <<"m">>)
                     m == IF IsDigits(m_part) THEN ToInt(m_part) ELSE 0
                 IN  IF h <= 23 /\ m <= 59 THEN FormatTime(h, m) ELSE <<>>
            ELSE <<>>
        t2 == SelectSeq(t, LAMBDA c : c \notin {"h", "H"})
        by_colon ==
            IF /\ Has(t, ":")
               /\ IsDigits(SplitFirst(t2, ":"))
               /\ IsDigits(SplitSecond(t2, ":"))
            THEN LET h == ToInt(SplitFirst(t2, ":"))
                     m == ToInt(SplitSecond(t2, ":"))
                 IN  IF h <= 23 /\ m <= 59 THEN FormatTime(h, m) ELSE <<>>
            ELSE <<>>
        by_hora ==
            IF Contains(tl, <<"h", "o", "r", "a">>)
            THEN LET nums == SelectSeq(tl, isdigit)
                 IN  IF IsDigits(nums) /\ ToInt(nums) <= 23
                     THEN FormatTime(ToInt(nums), 0) ELSE <<>>
            ELSE <<>>
    IN  IF tok = <<>> THEN <<>>
        ELSE IF by_h # <<>> THEN by_h
        ELSE IF by_colon # <<>> THEN by_colon
        ELSE by_hora

\* the characters _scan_time_simple keeps in a token
IsTokenChar(c) == isalnum(c) \/ c \in {":", "h", "H"}

\* the tokens of _scan_time_simple, in order: the maximal runs of token
\* characters
TimeTokens(s) ==
    LET starts == {i \in DOMAIN s :
                    IsTokenChar(s[i]) /\ (i = 1 \/ ~IsTokenChar(s[i - 1]))}
        stop(i) == LET ends == {j \in i..Len(s) :
                                    j = Len(s) \/ ~IsTokenChar(s[j + 1])}
                   IN  CHOOSE j \in ends : \A k \in ends : j <= k
        order == SortedSeq(starts)
    IN  [k \in DOMAIN order |-> SubSeq(s, order[k], stop(order[k]))]

_scan_time_simple(window) ==
    LET tokens == TimeTokens(window)
        hits == {k \in DOMAIN tokens : _std_time_token(tokens[k]) # <<>>}
    IN  IF hits = {} THEN <<>>
        ELSE _std_time_token(tokens[CHOOSE k \in hits : \A j \in hits : k <= j])

AUDIEN == <<"a", "u", "d", "i", "e", "n">>
PERIC == <<"p", "e", "r", "i", "c">>

NoDateTime == [data |-> <<>>, hora |-> <<>>]

\* tipo is "audiencia" or "pericia": alvo is "audien" when it starts with
\* "aud".  pos is an index of the normalized text, the window a slice of the
\* text itself.
extrair_data_hora_evento(texto, tipo) ==
    LET t == SelectSeq(texto, LAMBDA c : c # "CR")
        tn == normalizar(t)
        alvo == IF tipo = "audiencia" THEN AUDIEN ELSE PERIC
        cand == {Find(tn, AUDIEN), Find(tn, PERIC)} \ {0 - 1}
        pos == IF Find(tn, alvo) >= 0 THEN Find(tn, alvo)
               ELSE CHOOSE p \in cand : \A q \in cand : p <= q
        window == SubSeq(t, pos + 1, Min2(Len(t), pos + 600))
        data == _scan_date_simple(window)
        hora == _scan_time_simple(window)
        late == _scan_date_simple(PySlice(window, Find(window, hora),
                                          Find(window, hora) + 160))
    IN  IF texto = <<>> \/ cand = {} THEN NoDateTime
        ELSE IF data # <<>>
        THEN [data |-> data,
              hora |-> _scan_time_simple(PySlice(window, Find(window, data),
                                                 Find(window, data) + 120))]
        ELSE IF hora # <<>> /\ late # <<>>
        THEN [data |-> late, hora |-> hora]
        ELSE NoDateTime

Dashes == [i \in 1..11 |-> "EN DASH"]
Filler == [i \in 1..110 |-> "x"]

EventPieces ==
    { Dashes,
      <<"0", "1", "/", "0", "1", "/", "2", "0", "2", "4", " ">>,
      <<"0", "2", "/", "0", "2", "/", "2", "0", "2", "4", " ">>,
      <<"a", "u", "d", "i", "ê", "n", "c", "i", "a", " ">>,
      <<"P", "e", "r", "í", "c", "i", "a", " ">>,
      <<"1", "4", "h", "3", "0", " ">>,
      <<"0", "9", ":", "0", "0", " ">>,
      Filler }

EventTexts ==
    {Flatten(ws) : ws \in {w \in UNION {[1..n -> EventPieces] : n \in 0..MaxPieces} :
                            Cardinality({k \in DOMAIN w : w[k] = Filler}) <= 1}}

\* _data, _hora = extrair_data_hora_evento(corpo, _tipo_ap)
CallExtrairDataHora ==
    /\ f_call = NoCall
    /\ \E texto \in EventTexts, tipo \in {"audiencia", "pericia"} :
        /\ f_call' = [fn |-> "extrair_data_hora_evento",
                      arg |-> [texto |-> texto, tipo |-> tipo]]
        /\ f_ret' = Some(extrair_data_hora_evento(texto, tipo))
    /\ UNCHANGED <<mailbox, last_checked, tables, e_vars, today, p_vars,
                   a_vars, w_vars>>

NextDataHora == CallExtrairDataHora

-----------------------------------------------------------------------------
(* app.py: moving rows between tables.  _move_rows copies the rows of the   *)
(* selected ids into the destination table, one _save_row (a session and a  *)
(* commit of its own) per row, and deletes them from the source table in    *)
(* one commit at the end.  The forms save a new row into the destination    *)
(* table and then call _delete_row for the row of the form.                 *)

\* rows a table holds at the start, and moves made in one session of the page
MaxRows == 2
MaxMoves == 1

TABLE_MODELS ==
    {"Andamento", "Publicacao", "Financeiro", "Agenda", "Concluida"}

\* the columns of the classes of db.py, id and created_at apart
CaseItemCols == DOMAIN (CHOOSE v \in AndamentoValues : TRUE)
AgendaCols == DOMAIN (CHOOSE v \in AgendaValues : TRUE)
ColsOf(model) ==
    IF model = "Agenda" THEN AgendaCols
    ELSE IF model = "Concluida" THEN ConcluidaCols
    ELSE CaseItemCols

\* common_cols of _move_rows
common_cols(src_model, dst_model) == ColsOf(src_model) \cap ColsOf(dst_model)

ModelTable(model) ==
    CASE model = "Andamento" -> andamentos
      [] model = "Publicacao" -> publicacoes
      [] model = "Financeiro" -> financeiro
      [] model = "Agenda" -> agenda
      [] model = "Concluida" -> concluidas

\* a commit that writes the table of one class only
SetTable(model, t) ==
    /\ andamentos' = IF model = "Andamento" THEN t ELSE andamentos
    /\ publicacoes' = IF model = "Publicacao" THEN t ELSE publicacoes
    /\ financeiro' = IF model = "Financeiro" THEN t ELSE financeiro
    /\ agenda' = IF model = "Agenda" THEN t ELSE agenda
    /\ concluidas' = IF model = "Concluida" THEN t ELSE concluidas

\* record = model(**values); db.add(record); db.commit(): a column that
\* values does not name is NULL
NewRow(model, new_id, values) ==
    [id |-> new_id] @@ values @@ [c \in ColsOf(model) |-> None]

\* {col: getattr(row, col) for col in common_cols}
RowData(row, cols) == [c \in cols |-> row[c]]

\* a row with its date: inicio_prazo of a CaseItem, data of an Agenda row
Dated(v) == Getattr(v, "inicio_prazo") # None \/ Getattr(v, "data") # None

\* the rows a table holds when the page is opened: the first from a filled
\* form, the others from a form with the dates left empty
StoredRows(model, n) ==
    [i \in 1..n |->
        [id |-> i] @@
        (IF i = 1
         THEN CHOOSE v \in FormValues(model) : Dated(v)
         ELSE CHOOSE v \in FormValues(model) : ~Dated(v))]

\* the locals of _move_rows: the rows still to copy, the ids db.delete was
\* called for, and agenda_ids_to_remove (pend)
MoveRowsOp(src_model, dst_model, rows) ==
    [fn |-> "move_rows", model |-> src_model, dst |-> dst_model,
     rows |-> rows, deleted |-> {}] @@ NoOp

\* history of a move: the rows it was asked to move, each with the id of
\* its copy in the destination table once the copy is committed
MoveStarted(fn, src_model, dst_model, moved) ==
    [fn |-> fn, model |-> src_model, dst |-> dst_model, moved |-> moved,
     outcome |-> "running"] @@ NoEnd

\* _move_rows(src_model, dst_model, ids) up to the query of the rows; ids is
\* what the multiselect holds, a non-empty set of ids of the source table
MoveRowsBegin ==
    /\ a_pc = "idle"
    /\ a_n < MaxMoves
    /\ a_n' = a_n + 1
    /\ \E src_model \in TABLE_MODELS, dst_model \in TABLE_MODELS :
       \E selected \in (SUBSET IdsOf(ModelTable(src_model))) \ {{}} :
        LET rows == SelectSeq(ModelTable(src_model),
                              LAMBDA row : row.id \in selected)
        IN /\ dst_model # src_model
           /\ a_op' = MoveRowsOp(src_model, dst_model, rows)
           /\ a_last' = MoveStarted("move_rows", src_model, dst_model,
                            {[row |-> rows[i], copy |-> None] :
                                 i \in DOMAIN rows})
    /\ a_pc' = "move_row"
    /\ UNCHANGED <<mailbox, last_checked, tables, e_vars, today, p_vars,
                   f_vars, w_vars, concluidas, calendar, warnings, a_seq,
                   cal_log>>

\* what _save_row(model, None, values) does when its commit succeeds: the
\* new row, and for an Agenda row the calendar call and its warning
SaveNewRow(model, values, available, lookup_ok, write_ok) ==
    LET new_id == a_seq[model] + 1
        record == NewRow(model, new_id, SaveValues(None, values, today))
        r == sync_event(calendar, a_seq.Event, new_id, record,
                        available, lookup_ok, write_ok)
    IN /\ SetTable(model, Append(ModelTable(model), record))
       /\ IF model = "Agenda"
          THEN /\ calendar' = r.calendar
               /\ a_seq' = [a_seq EXCEPT ![model] = new_id, !.Event = r.seq]
               /\ warnings' = IF r.success THEN warnings
                              ELSE _show_calendar_warning(warnings, r.message)
               /\ cal_log' = cal_log \cup {[call |-> "sync", rid |-> new_id]}
          ELSE /\ available /\ lookup_ok /\ write_ok
               /\ a_seq' = [a_seq EXCEPT ![model] = new_id]
               /\ UNCHANGED <<calendar, warnings, cal_log>>

\* _save_row raised: nothing is written
SaveFailed(available, lookup_ok, write_ok) ==
    /\ available /\ lookup_ok /\ write_ok
    /\ UNCHANGED <<tables, concluidas, a_seq, calendar, warnings, cal_log>>

\* one turn of the loop of _move_rows: _save_row(dst_model, None, data), and
\* then db.delete(row) in the session of _move_rows; ok: _save_row did not
\* raise.  An exception leaves the with block without a commit.
MoveRowsSave ==
    /\ a_pc = "move_row"
    /\ a_op.rows # <<>>
    /\ \E ok, available, lookup_ok, write_ok \in BOOLEAN :
        LET row == Head(a_op.rows)
            data == RowData(row, common_cols(a_op.model, a_op.dst))
        IN IF ok
           THEN /\ SaveNewRow(a_op.dst, data, available, lookup_ok, write_ok)
                /\ a_op' = [a_op EXCEPT
                               !.rows = Tail(@),
                               !.deleted = @ \cup {row.id},
                               !.pend = IF a_op.model = "Agenda"
                                        THEN Append(@, row.id) ELSE @]
                /\ a_last' = [a_last EXCEPT
                                 !.moved = (@ \ {[row |-> row, copy |-> None]})
                                    \cup {[row |-> row,
                                           copy |-> Some(a_seq[a_op.dst] + 1)]}]
                /\ UNCHANGED a_pc
           ELSE /\ SaveFailed(available, lookup_ok, write_ok)
                /\ MoveRollback
    /\ UNCHANGED <<mailbox, last_checked, e_vars, today, p_vars, f_vars,
                   w_vars, a_n>>

\* db.commit() of _move_rows after the loop: the deletions become visible;
\* then delete_agenda_events for the rows that left the agenda
MoveRowsCommit ==
    /\ a_pc = "move_row"
    /\ a_op.rows = <<>>
    /\ \E ok \in BOOLEAN :
        IF ok
        THEN /\ SetTable(a_op.model,
                         WithoutIds(ModelTable(a_op.model), a_op.deleted))
             /\ a_last' = [a_last EXCEPT !.outcome = "committed"]
             /\ ThenCalendar("move_rows", a_op.model, "delete", a_op.pend,
                             None)
        ELSE /\ MoveRollback
             /\ UNCHANGED <<tables, concluidas>>
    /\ UNCHANGED <<mailbox, last_checked, e_vars, today, p_vars, f_vars,
                   w_vars, calendar, warnings, a_n, a_seq, cal_log>>

\* The form actions that move the row of the form: source class and
\* destination class (tab1 to the agenda; tab2 to the agenda and to
\* financeiro; tab_fin to publicacoes and to andamentos).
FormMoves ==
    {<<"Andamento", "Agenda">>, <<"Publicacao", "Agenda">>,
     <<"Publicacao", "Financeiro">>, <<"Financeiro", "Publicacao">>,
     <<"Financeiro", "Andamento">>}

\* agenda_values of the forms of tab1 and tab2
AgendaFormValues(form, tipo_ap) ==
    [idx |-> None, data |-> OrDate(form.fim_prazo, form.inicio_prazo),
     horario |-> None, status |-> None,
     cliente |-> OrText(form.cliente, None),
     cliente_avisado |-> None, anotado_na_agenda |-> None,
     observacao |-> OrText(form.resposta_do_colaborador,
                           OrText(form.observacoes, None)),
     numero_processo |-> OrText(form.processo, None),
     tipo_audiencia_pericia |-> Some(tipo_ap),
     materia |-> None, parte_adversa |-> None, sistema |-> Some("manual")]

\* values of the forms that move to a CaseItem table; tab_fin sets the setor
CaseFormValues(form, src_model) ==
    [c \in DOMAIN form |->
        IF c = "setor" /\ src_model = "Financeiro" THEN Some("Tainá")
        ELSE IF c \in {"inicio_prazo", "fim_prazo", "dias_restantes"}
        THEN form[c]
        ELSE OrText(form[c], None)]

\* the values the form hands to _save_row, after _apply_prazo_logic
MoveFormValues(src_model, dst_model) ==
    {LET prazo == _apply_prazo_logic(f.inicio_prazo, f.fim_prazo,
                                     f.dias_restantes, today) @@ f
     IN IF dst_model = "Agenda" THEN AgendaFormValues(prazo, "Audiencia")
        ELSE CaseFormValues(prazo, src_model) : f \in AndamentoValues}

\* the forms delete the row of the form everywhere, whatever the save did
AfterSaveAlways(ok, target) ==
    IF target # None THEN "form_delete" ELSE "idle"

\* _save_row(...); if target is not None: _delete_row(...): an exception of
\* _save_row ends the handler
AfterSave(ok, target) ==
    IF ok /\ target # None THEN "form_delete" ELSE "idle"

\* the form: _save_row(dst_model, None, values); target is the row the form
\* was opened for, or None for a new row
FormMoveSave ==
    /\ a_pc = "idle"
    /\ a_n < MaxMoves
    /\ a_n' = a_n + 1
    /\ \E mv \in FormMoves, ok, available, lookup_ok, write_ok \in BOOLEAN :
       \E target \in {None} \cup {Some(i) : i \in IdsOf(ModelTable(mv[1]))},
          values \in MoveFormValues(mv[1], mv[2]) :
        LET src_model == mv[1]
            dst_model == mv[2]
            moved == IF target = None THEN {}
                     ELSE {[row |-> Val(RowById(ModelTable(src_model),
                                                Val(target))),
                            copy |-> IF ok THEN Some(a_seq[dst_model] + 1)
                                     ELSE None]}
        IN /\ IF ok
              THEN SaveNewRow(dst_model, values, available, lookup_ok,
                              write_ok)
              ELSE SaveFailed(available, lookup_ok, write_ok)
           /\ a_pc' = AfterSave(ok, target)
           /\ a_op' = IF a_pc' = "form_delete"
                      THEN [fn |-> "form_move", model |-> src_model,
                            dst |-> dst_model, pend |-> <<Val(target)>>]
                           @@ NoOp
                      ELSE NoOp
           /\ a_last' = [MoveStarted("form_move", src_model, dst_model, moved)
                            EXCEPT !.outcome = IF ~ok THEN "db_error"
                                               ELSE IF target = None
                                               THEN "committed" ELSE "saved"]
    /\ UNCHANGED <<mailbox, last_checked, e_vars, today, p_vars, f_vars,
                   w_vars>>

\* the form: _delete_row(src_model, target); no form moves a row out of the
\* agenda, so no calendar call follows
FormMoveDelete ==
    /\ a_pc = "form_delete"
    /\ \E ok \in BOOLEAN :
        IF ok
        THEN /\ SetTable(a_op.model,
                         WithoutIds(ModelTable(a_op.model),
                                    {Head(a_op.pend)}))
             /\ a_last' = [a_last EXCEPT !.outcome = "committed"]
        ELSE /\ UNCHANGED <<tables, concluidas>>
             /\ a_last' = [a_last EXCEPT !.outcome = "db_error"]
    /\ a_pc' = "idle"
    /\ a_op' = NoOp
    /\ UNCHANGED <<mailbox, last_checked, e_vars, today, p_vars, f_vars,
                   w_vars, calendar, warnings, a_n, a_seq, cal_log>>

NextMove ==
    \/ MoveRowsBegin
    \/ MoveRowsSave
    \/ MoveRowsCommit
    \/ FormMoveSave
    \/ FormMoveDelete
    \/ AppCalendarDelete

\* the tables when the page is opened: up to MaxRows rows in andamentos, one
\* row in agenda and in financeiro
InitMove ==
    /\ mailbox = {}
    /\ last_checked = <<>>
    /\ andamentos \in {StoredRows("Andamento", n) : n \in 0..MaxRows}
    /\ publicacoes = <<>>
    /\ agenda = StoredRows("Agenda", 1)
    /\ financeiro = StoredRows("Financeiro", 1)
    /\ e_pc = "idle"
    /\ ultima_data = datetime_min
    /\ max_data_processada = datetime_min
    /\ pasta = 1
    /\ remetente = 1
    /\ ids = <<>>
    /\ e_log = <<>>
    /\ e_last = NoLast
    /\ today = 1
    /\ p_pc = "idle"
    /\ p_args = [from_date |-> None, to_date |-> None, dry_run |-> FALSE]
    /\ cur = 1
    /\ attempts = 0
    /\ norm = <<>>
    /\ p_runs = 0
    /\ p_hist = NoRun
    /\ p_seen = {}
    /\ concluidas = <<>>
    /\ calendar = {}
    /\ warnings = <<>>
    /\ a_pc = "idle"
    /\ a_op = NoOp
    /\ a_n = 0
    /\ a_seq = [Andamento |-> Len(andamentos), Publicacao |-> 0,
                Financeiro |-> Len(financeiro), Agenda |-> Len(agenda),
                Concluida |-> 0, Event |-> 0]
    /\ cal_log = {}
    /\ a_last = NoEnd
    /\ f_call = NoCall
    /\ f_ret = None
    /\ w_pc = "idle"
    /\ page_cards = 0
    /\ last_count = 0 - 1
    /\ counts = <<>>

-----------------------------------------------------------------------------

Init ==
    /\ mailbox = {}
    /\ last_checked = <<>>
    /\ andamentos = <<>>
    /\ publicacoes = <<>>
    /\ agenda = <<>>
    /\ financeiro = <<>>
    /\ e_pc = "idle"
    /\ ultima_data = datetime_min
    /\ max_data_processada = datetime_min
    /\ pasta = 1
    /\ remetente = 1
    /\ ids = <<>>
    /\ e_log = <<>>
    /\ e_last = NoLast
    /\ today = 1
    /\ p_pc = "idle"
    /\ p_args = [from_date |-> None, to_date |-> None, dry_run |-> FALSE]
    /\ cur = 1
    /\ attempts = 0
    /\ norm = <<>>
    /\ p_runs = 0
    /\ p_hist = NoRun
    /\ p_seen = {}
    /\ concluidas = <<>>
    /\ calendar = {}
    /\ warnings = <<>>
    /\ a_pc = "idle"
    /\ a_op = NoOp
    /\ a_n = 0
    /\ a_seq = [Andamento |-> 0, Agenda |-> 0, Concluida |-> 0, Event |-> 0]
    /\ cal_log = {}
    /\ a_last = NoEnd
    /\ f_call = NoCall
    /\ f_ret = None
    /\ w_pc = "idle"
    /\ page_cards = 0
    /\ last_count = 0 - 1
    /\ counts = <<>>

Next == NextEmail \/ NextScrape \/ NextApp

Spec == Init /\ [][Next]_vars
SpecEmail == Init /\ [][NextEmail]_vars
SpecScrape == Init /\ [][NextScrape]_vars
SpecDetect == Init /\ [][NextDetect]_vars
SpecChecar == Init /\ [][NextChecar]_vars
SpecPrazo == Init /\ [][NextPrazo]_vars
SpecRecorte == Init /\ [][NextRecorte]_vars
\* the loop runs in one thread that is never suspended for ever
SpecScroll ==
    Init /\ [][NextScroll]_vars /\ WF_vars(FetchPoll) /\ WF_vars(FetchExtract)
SpecDataHora == Init /\ [][NextDataHora]_vars
SpecMove == InitMove /\ [][NextMove]_vars
SpecApp == Init /\ [][NextApp]_vars
SpecCnj == Init /\ [][NextCnj]_vars

\* The two jobs on one database, their steps interleaved: at most one run of
\* each, on a mailbox of the first two messages.
OneRunEach == Len(e_log) <= 1 /\ p_runs <= 1 /\ mailbox \subseteq {1, 2}

NextShared ==
    \/ Deliver /\ OneRunEach'
    \/ EmailStart /\ OneRunEach'
    \/ EmailSearch
    \/ EmailMessage
    \/ EmailLogout
    \/ EmailSalvar
    \/ Tick
    \/ ScrapeStart /\ OneRunEach'
    \/ ScrapeFetch
    \/ ScrapeSave
    \/ ScrapeSetLastChecked

SpecShared == Init /\ [][NextShared]_vars

-----------------------------------------------------------------------------
(* Properties of the email run *)

Watermark(lc) == ler_ultima_data(lc).utc
RowsOfRun(t, r) == {i \in DOMAIN t : t[i].run = r}
InsertedBy(r) ==
    Cardinality(RowsOfRun(andamentos, r))
        + Cardinality({i \in RowsOfRun(publicacoes, r) : publicacoes[i].src = "email"})
        + Cardinality(RowsOfRun(agenda, r))
\* a step of the message loop
EmailMessageStep == e_pc = "fetch" /\ ids' # ids

\* C1: a run that follows a run which completed, with every search and fetch
\* answered, on the same mailbox content inserts no row into andamentos,
\* publicacoes or agenda.
C1_SecondRunInsertsNothing ==
    \A r \in DOMAIN e_log :
        (r > 1 /\ e_log[r - 1].result = "completed" /\ e_log[r - 1].clean
               /\ e_log[r].box = e_log[r - 1].box)
        => InsertedBy(r) = 0

\* two rows of table t made from the same message (and sub-block), the
\* earlier one by a run that aborted
RepeatsAbortedRow(t, sameKey(_, _)) ==
    \E i, j \in DOMAIN t :
        /\ i < j
        /\ sameKey(t[i], t[j])
        /\ t[i].run < t[j].run
        /\ e_log[t[i].run].result = "aborted"

\* C2: no message persisted by a run that then aborted is persisted again by
\* a later run.
C2_RetryPersistsNothingTwice ==
    /\ ~RepeatsAbortedRow(andamentos, LAMBDA x, y : x.msg = y.msg)
    /\ ~RepeatsAbortedRow(agenda, LAMBDA x, y : x.msg = y.msg)
    /\ ~RepeatsAbortedRow(publicacoes,
            LAMBDA x, y : x.src = "email" /\ y.src = "email"
                          /\ x.msg = y.msg /\ x.bloco = y.bloco)

\* C3: the watermark table is written only by the step that follows
\* mail.logout() and ends the run (so at most once in a run), and a run that
\* aborts leaves the stored watermark as it was read at the start of the run.
C3_WatermarkOnlyAfterLogout ==
    [][ /\ (last_checked' # last_checked) => (e_pc = "salvar" /\ e_pc' = "idle")
        /\ (e_pc # "idle" /\ e_pc' = "idle"
                /\ e_log'[Len(e_log')].result = "aborted")
           => Watermark(last_checked') = e_log[e_run].start ]_vars

C3_Witness ==
    /\ Len(e_log) = 2
    /\ e_log[1].result = "completed"
    /\ e_log[2].result = "aborted"
    /\ Watermark(last_checked) > datetime_min.utc
    /\ InsertedBy(2) > 0

\* C4: a fetched message whose Date is at or before the watermark read at the
\* start of the run inserts no row and leaves the running maximum as it was.
C4_OldMessageSkipped ==
    [][ (/\ EmailMessageStep
         /\ Messages[Head(ids)].date # None
         /\ Val(Messages[Head(ids)].date).utc <= ultima_data.utc)
        => /\ andamentos' = andamentos
           /\ publicacoes' = publicacoes
           /\ agenda' = agenda
           /\ max_data_processada' = max_data_processada ]_vars

C4_Witness ==
    /\ e_last.outcome = "skipped"
    /\ e_pc = "fetch"
    /\ Val(Messages[e_last.msg].date).utc = ultima_data.utc
    /\ max_data_processada.utc > ultima_data.utc

SeenDates(r) ==
    {Val(Messages[m].date).utc : m \in {k \in e_log[r].seen : Messages[k].date # None}}

\* C5: after a completed run the stored watermark is the maximum of the
\* watermark read at its start and the Dates of the messages it did not
\* skip; and no step of an email run lowers the stored watermark.
C5_WatermarkIsMaximum ==
    /\ [](\A r \in DOMAIN e_log :
            (r = Len(e_log) /\ e_log[r].result = "completed")
            => Watermark(last_checked) = Max({e_log[r].start} \cup SeenDates(r)))
    /\ [][Watermark(last_checked') >= Watermark(last_checked)]_vars

C5_Witness ==
    /\ Len(e_log) = 2
    /\ e_log[1].result = "completed"
    /\ e_log[2].result = "completed"
    /\ e_log[2].start > datetime_min.utc
    /\ Watermark(last_checked) > e_log[2].start
    /\ Cardinality(SeenDates(2)) > 1

\* C6: an error raised while one message is handled does not end the run.
C6_ErrorDoesNotAbort ==
    e_last.outcome = "raise" => e_log[e_run].result # "aborted"

Added(t1, t0) == Len(t1) - Len(t0)

\* C7 as stated: hearing/exam detected -> an Agenda row and no Andamento row;
\* digest sender -> only Publicacao rows; otherwise one Andamento row and no
\* Agenda row.
C7_ThreeExclusivePaths ==
    [][ (EmailMessageStep /\ e_last'.outcome = "persisted")
        => LET msg == Messages[Head(ids)]
           IN IF msg.tipo # None
              THEN Added(agenda', agenda) = 1 /\ Added(andamentos', andamentos) = 0
              ELSE IF msg.remetente = "rd_oabrj@recortedigital.adv.br"
              THEN Added(agenda', agenda) = 0 /\ Added(andamentos', andamentos) = 0
              ELSE /\ Added(andamentos', andamentos) = 1
                   /\ Added(agenda', agenda) = 0
                   /\ Added(publicacoes', publicacoes) = 0 ]_vars

\* C7 amended: the path is chosen by the sender.  Digest sender: only
\* Publicacao rows, one per kept sub-block.  PMF sender: one Agenda row only.
\* Any other sender: one Andamento row, and one Agenda row exactly when a
\* hearing/exam is detected.
C7_PathsBySender ==
    [][ (EmailMessageStep /\ e_last'.outcome = "persisted")
        => LET msg == Messages[Head(ids)]
               kept == {i \in DOMAIN msg.blocos :
                           /\ msg.blocos[i].processo \/ msg.blocos[i].data
                           /\ ~msg.blocos[i].edital}
           IN IF msg.remetente = "rd_oabrj@recortedigital.adv.br"
              THEN /\ Added(publicacoes', publicacoes) = Cardinality(kept)
                   /\ Added(agenda', agenda) = 0
                   /\ Added(andamentos', andamentos) = 0
              ELSE IF msg.remetente = "pmfgestao@pmf.mps.gov.br"
              THEN /\ Added(agenda', agenda) = 1
                   /\ Added(andamentos', andamentos) = 0
                   /\ Added(publicacoes', publicacoes) = 0
              ELSE /\ Added(andamentos', andamentos) = 1
                   /\ Added(agenda', agenda) = (IF msg.tipo # None THEN 1 ELSE 0)
                   /\ Added(publicacoes', publicacoes) = 0 ]_vars

C7_Witness ==
    /\ e_last.outcome = "persisted"
    /\ Messages[e_last.msg].tipo # None
    /\ \E i \in DOMAIN agenda : agenda[i].msg = e_last.msg /\ agenda[i].run = e_run
    /\ \E i \in DOMAIN andamentos :
            andamentos[i].msg = e_last.msg /\ andamentos[i].run = e_run

\* the Date header of the message is missing or cannot be parsed
Dateless(m) == Messages[m].date = None

-----------------------------------------------------------------------------
(* Properties of the scrape run *)

Last(q) == q[Len(q)]
ScrapeWatermark == get_last_checked(last_checked, SCOPE)
\* <<a, a+1, ..., a+n-1>>
DaysFrom(a, n) == [i \in 1..n |-> a + i - 1]

\* C8: saving a day that an earlier save already wrote with the same cards
\* leaves the number of rows of publicacoes unchanged.
C8_RescrapeAddsNoRow ==
    [][ (/\ p_pc = "save" /\ p_pc' = "set"
         /\ [dia |-> cur, raw |-> RawOf(norm)] \in p_seen)
        => Len(publicacoes') = Len(publicacoes) ]_vars

C10_FailureStopsRun ==
    /\ [](attempts <= MaxAttempts)
    /\ [](p_hist.result \in {"running", "done", "stopped"}
            => /\ p_hist.marked = DaysFrom(p_args.from_date, Len(p_hist.marked))
               /\ p_hist.fetched = DaysFrom(p_args.from_date, Len(p_hist.fetched))
               /\ \A i \in DOMAIN p_hist.saved :
                    p_hist.saved[i] \in p_args.from_date..p_args.to_date
               /\ Len(p_hist.fetched) <= p_args.to_date - p_args.from_date + 1)
    /\ [](p_hist.result = "stopped"
            => /\ p_pc = "idle"
               /\ Len(p_hist.marked) = Val(p_hist.failed) - p_args.from_date
               /\ Len(p_hist.fetched) = Val(p_hist.failed) - p_args.from_date + 1
               /\ \A i \in DOMAIN p_hist.saved : p_hist.saved[i] <= Val(p_hist.failed))
    /\ [][ (p_hist.result = "running" /\ p_hist'.result = "stopped")
           => /\ publicacoes' = publicacoes
              /\ last_checked' = last_checked
              /\ (p_pc = "fetch" => attempts = MaxAttempts - 1) ]_vars

C10_Witness ==
    /\ p_hist.result = "stopped"
    /\ p_hist.failed = Some(2)
    /\ p_args.from_date = 1
    /\ p_args.to_date = 3
    /\ p_hist.marked = <<1>>
    /\ p_hist.saved = <<1>>
    /\ publicacoes # <<>>
    /\ ScrapeWatermark = Some(EndDt(1).utc)

\* C11: no step of a scrape run, with or without explicit dates, replaces the
\* stored watermark of the scrape scope by an earlier instant.
C11_WatermarkOnlyAdvances ==
    [][ (ScrapeWatermark # None /\ ScrapeWatermark' # None)
        => Val(ScrapeWatermark') >= Val(ScrapeWatermark) ]_vars

\* the calendar day (-03:00) of the stored watermark of the scrape scope
WatermarkDay ==
    (Val(ScrapeWatermark) + FusoBrasil) \div SecondsPerDay
\* a step that starts a run without --from and without --to
DefaultRunStarts == p_runs' = p_runs + 1 /\ p_hist'.default

\* C12 as stated: a run without explicit dates starts at the later of the
\* watermark's day and today (today when no watermark is stored) and ends
\* today.
C12_StartsAtLaterOfWatermarkAndToday ==
    [][ DefaultRunStarts
        => LET first == IF ScrapeWatermark # None
                        THEN Max({WatermarkDay, today}) ELSE today
           IN /\ p_pc' = "fetch"
              /\ cur' = first
              /\ p_args'.to_date = today ]_vars

\* C12 amended: a run without explicit dates has as its first day the day
\* (-03:00) of the stored watermark, today when none is stored, and as its
\* last day today; when the watermark's day is after today the run raises
\* ValueError and processes no day; otherwise the days it processes start
\* at that first day and, when the run finishes, end at the day that was
\* today when it started.
C12_StartsAtWatermarkDay ==
    /\ [][ DefaultRunStarts
           => LET first == IF ScrapeWatermark # None
                           THEN WatermarkDay ELSE today
              IN /\ p_args'.from_date = first
                 /\ p_args'.to_date = today
                 /\ IF first <= today
                    THEN p_pc' = "fetch" /\ cur' = first
                    ELSE /\ p_pc' = "idle"
                         /\ p_hist'.result = "ValueError"
                         /\ p_hist'.fetched = <<>> ]_vars
    /\ []((p_hist.default /\ p_hist.fetched # <<>>)
            => Head(p_hist.fetched) = p_args.from_date)
    /\ []((p_hist.default /\ p_hist.result = "done")
            => Last(p_hist.marked) = p_args.to_date)

C12_Witness ==
    /\ p_runs = 2
    /\ p_hist.default
    /\ p_hist.result = "done"
    /\ today = 3
    /\ p_hist.fetched = <<2, 3>>
    /\ p_hist.marked = <<2, 3>>

\* C13: no step of a dry run changes the publicacoes table or the watermark
\* table, whatever the date range and whatever the fetches return.
C13_DryRunWritesNothing ==
    [][ (p_pc # "idle" /\ Dry)
        => /\ publicacoes' = publicacoes
           /\ last_checked' = last_checked ]_vars

C27_EndOfDayReadsBackAsSameDay ==
    /\ [](p_hist.marked # <<>>
            => DefaultStart(ScrapeWatermark, today) = Last(p_hist.marked))
    /\ [][ (/\ DefaultRunStarts
            /\ p_hist.result = "done"
            /\ Last(p_hist.marked) = today)
           => /\ p_hist'.result # "ValueError"
              /\ p_args'.from_date = today ]_vars

-----------------------------------------------------------------------------
(* Properties of the watermark table under both jobs *)

\* the step of a scrape run that writes its watermark
ScrapeWrites == p_pc = "set" /\ p_hist' # p_hist
\* the step of an email run that writes its watermark
EmailWrites == e_pc = "salvar" /\ e_pc' = "idle"

\* C14: a watermark write of the scrape leaves the value the email run reads
\* as its watermark as it was, and a watermark write of the email run leaves
\* the value get_last_checked returns for the scrape scope as it was.
C14_ScopesIndependent ==
    [][ /\ ScrapeWrites
           => ler_ultima_data(last_checked') = ler_ultima_data(last_checked)
        /\ EmailWrites
           => get_last_checked(last_checked', SCOPE)
                = get_last_checked(last_checked, SCOPE) ]_vars

-----------------------------------------------------------------------------
(* Properties of the form handlers *)

MoveStep == a_pc \in {"insert", "delete", "commit"}
MovedRow == Val(a_op.rec)

\* C15: a step of _move_to_concluidas either leaves the archive and the
\* source table as they were, or (the commit) adds one row to the archive and
\* removes the row of that id, and only that row, from the source table; the
\* archive changes in no other step; a call for an id that has no row
\* changes neither table.
C15_MoveIsAtomic ==
    /\ [][ MoveStep
           => \/ /\ concluidas' = concluidas
                 /\ andamentos' = andamentos
                 /\ agenda' = agenda
              \/ /\ a_pc = "commit"
                 /\ Len(concluidas') = Len(concluidas) + 1
                 /\ IF a_op.model = "Agenda"
                    THEN /\ agenda' = WithoutIds(agenda, {MovedRow.id})
                         /\ Len(agenda') = Len(agenda) - 1
                         /\ andamentos' = andamentos
                    ELSE /\ andamentos' = WithoutIds(andamentos, {MovedRow.id})
                         /\ Len(andamentos') = Len(andamentos) - 1
                         /\ agenda' = agenda ]_vars
    /\ [][ concluidas' # concluidas => a_pc = "commit" ]_vars
    /\ [][ (a_n' # a_n /\ a_last'.fn = "move" /\ a_last'.outcome = "missing")
           => /\ concluidas' = concluidas
              /\ andamentos' = andamentos
              /\ agenda' = agenda ]_vars

C15_Witness ==
    /\ a_last.fn = "move"
    /\ a_last.model = "Agenda"
    /\ a_last.outcome = "committed"
    /\ a_pc = "idle"
    /\ Len(concluidas) = 1
    /\ a_seq.Agenda = 2
    /\ Len(agenda) = 1

TextCols ==
    {"setor", "cliente", "processo", "para_ramon_e_adriana_despacharem",
     "status", "resposta_do_colaborador", "observacoes", "horario",
     "cliente_avisado", "anotado_na_agenda", "observacao", "numero_processo",
     "tipo_audiencia_pericia", "materia", "parte_adversa", "sistema"}
DateCols == {"d", "inicio_prazo", "fim_prazo", "data"}
KindOf(c) == IF c \in TextCols THEN "text"
             ELSE IF c \in DateCols THEN "date" ELSE "integer"
\* a column that holds a value: not NULL and, a text, not empty
Populated(rec, c) == rec[c] # None /\ (c \in TextCols => rec[c] # Some(""))
\* the step that commits a move, and the archive row it adds
MoveCommits == a_pc = "commit" /\ Len(concluidas') = Len(concluidas) + 1
ArchivedRow == concluidas'[Len(concluidas')]

AgendaArchiveColumn ==
    [data |-> "d", horario |-> "setor", cliente |-> "cliente",
     numero_processo |-> "processo",
     anotado_na_agenda |-> "para_ramon_e_adriana_despacharem",
     status |-> "status", cliente_avisado |-> "resposta_do_colaborador",
     observacao |-> "observacoes"]

Range(q) == {q[i] : i \in DOMAIN q}

\* C17: when the calendar is called the database change of the handler is
\* already committed (the deleted or archived rows are gone, the saved row is
\* in the table); a calendar call, failing or not, leaves every table as it
\* is; a failure adds at most its message to the warnings of the session, and
\* no message is in the list twice.
C17_CalendarNeverBlocksWrite ==
    /\ [](a_pc = "calendar"
            => /\ a_last.outcome = "committed"
               /\ a_op.call = "delete"
                  => \A rid \in Range(a_op.pend) : rid \notin IdsOf(agenda)
               /\ a_op.call = "sync" => Val(a_op.payload) \in Range(agenda)
               /\ a_op.fn = "move" => concluidas # <<>>)
    /\ [][ a_pc = "calendar"
           => /\ andamentos' = andamentos
              /\ publicacoes' = publicacoes
              /\ agenda' = agenda
              /\ concluidas' = concluidas
              /\ \/ warnings' = warnings
                 \/ /\ a_pc' = "idle"
                    /\ a_last'.cal = "failed"
                    /\ Len(warnings') = Len(warnings) + 1
                    /\ warnings = SubSeq(warnings', 1, Len(warnings)) ]_vars
    /\ [](\A i, j \in DOMAIN warnings : warnings[i] = warnings[j] => i = j)

C17_Witness ==
    /\ a_pc = "idle"
    /\ a_last.fn = "delete"
    /\ a_last.cal = "failed"
    /\ warnings = <<"calendario indisponivel">>
    /\ cal_log = {[call |-> "sync", rid |-> 1], [call |-> "delete", rid |-> 1]}
    /\ calendar = {}
    /\ agenda = <<>>
    /\ a_seq.Agenda = 1

\* C18: once an email run is over, every Agenda row in the table (its id is
\* its position: the ids are serial and the run deletes nothing) has had a
\* sync or delete call made for its id.
C18_AgendaChangesMirrored ==
    e_pc = "idle"
    => \A i \in DOMAIN agenda : \E c \in cal_log : c.rid = i

\* C19: the calendar never holds two events that carry the same agenda
\* record id.
C19_OneEventPerRecord ==
    \A e1, e2 \in calendar : e1.rid = e2.rid => e1 = e2

-----------------------------------------------------------------------------
(* Properties of the extraction functions *)

\* C20: extrair_numero_processo_do_corpo returns the leftmost substring of
\* the text that matches CNJ_REGEX, wherever it lies in the text, and the
\* empty string exactly when the text has no such substring: the result of
\* CNJ_REGEX.search.
C20_SameAsCnjRegex ==
    f_call.fn = "extrair_numero_processo_do_corpo"
    => /\ Val(f_ret) = CnjRegexSearch(f_call.arg)
       /\ Val(f_ret) = <<>>
            <=> ~\E i \in 0..Len(f_call.arg) : CnjMatchesAt(f_call.arg, i)

\* C21 (as stated): detection returns none when the normalized text holds
\* neither word, and when it holds both the word that occurs first decides.
C21_FirstByPositionWins ==
    f_call.fn = "detectar_audiencia_pericia"
    => LET tl == normalizar(f_call.arg)
           a == Find(tl, AUDIENCIA)
           p == Find(tl, PERICIA)
       IN  /\ (a < 0 /\ p < 0) => Val(f_ret) = None
           /\ (a >= 0 /\ p >= 0 /\ a < p) => Val(f_ret) = Some("audiencia")
           /\ (a >= 0 /\ p >= 0 /\ p < a) => Val(f_ret) = Some("pericia")

\* C21 (amended): detection returns none when the normalized text holds
\* neither word, the hearing whenever it holds "audiencia" (wherever
\* "pericia" lies), and the exam only when it holds "pericia" and not
\* "audiencia"; the app's twin decides the same way.
C21_HearingHasPriority ==
    /\ f_call.fn = "detectar_audiencia_pericia"
       => LET tl == normalizar(f_call.arg)
              a == Find(tl, AUDIENCIA)
              p == Find(tl, PERICIA)
          IN  /\ (a < 0 /\ p < 0) <=> Val(f_ret) = None
              /\ a >= 0 <=> Val(f_ret) = Some("audiencia")
              /\ (a < 0 /\ p >= 0) <=> Val(f_ret) = Some("pericia")
    /\ (f_call.fn = "_detect_audiencia_pericia" /\ f_call.arg # None)
       => LET tl == normalizar(Val(f_call.arg))
          IN  /\ Val(f_ret) = None
                    <=> (Find(tl, AUDIENCIA) < 0 /\ Find(tl, PERICIA) < 0)
              /\ Val(f_ret) = Some("Audiência") <=> Find(tl, AUDIENCIA) >= 0

C21_Witness ==
    /\ f_call.fn = "detectar_audiencia_pericia"
    /\ LET tl == normalizar(f_call.arg)
       IN  /\ Find(tl, PERICIA) >= 0
           /\ Find(tl, AUDIENCIA) > Find(tl, PERICIA)
    /\ Val(f_ret) = Some("audiencia")

\* C22: checar_palavra_chave answers every text, None and the empty text
\* included, with one of two queues: the financial queue exactly when the
\* lower-cased text holds a keyword of the list somewhere, the default queue
\* otherwise.
C22_TwoQueues ==
    f_call.fn = "checar_palavra_chave"
    => LET texto == IF f_call.arg = None THEN <<>> ELSE Val(f_call.arg)
           hits == {k \in DOMAIN PALAVRAS_CHAVE :
                        Find(str_lower(texto), PALAVRAS_CHAVE[k]) >= 0}
       IN  /\ Val(f_ret) \in {"Setor Financeiro", "Taina"}
           /\ Val(f_ret) = "Setor Financeiro" <=> hits # {}
           /\ texto = <<>> => Val(f_ret) = "Taina"

C22_Witness ==
    /\ f_call.fn = "checar_palavra_chave"
    /\ f_call.arg # None
    /\ Find(Val(f_call.arg), <<"A", "L", "V", "A", "R", "Á">>) > 0
    /\ Val(f_ret) = "Setor Financeiro"

\* C23: _apply_prazo_logic(start, end, days) returns days = end - today
\* when start and end are present (the given days are ignored), end =
\* start + days when start and days are present and end is absent, and the
\* three values unchanged in every other case; start is never modified.
C23_DeadlineRule ==
    f_call.fn = "_apply_prazo_logic"
    => LET a == f_call.arg
           r == Val(f_ret)
       IN  /\ r.inicio_prazo = a.inicio_prazo
           /\ (a.inicio_prazo # None /\ a.fim_prazo # None)
              => /\ r.fim_prazo = a.fim_prazo
                 /\ r.dias_restantes = Some(Val(a.fim_prazo) - a.hoje)
           /\ (a.inicio_prazo # None /\ a.fim_prazo = None
                    /\ a.dias_restantes # None)
              => /\ r.dias_restantes = a.dias_restantes
                 /\ r.fim_prazo
                        = Some(Val(a.inicio_prazo) + Val(a.dias_restantes))
           /\ (a.inicio_prazo = None
                    \/ (a.fim_prazo = None /\ a.dias_restantes = None))
              => /\ r.fim_prazo = a.fim_prazo
                 /\ r.dias_restantes = a.dias_restantes

\* start 2024-01-10, end 2024-01-15, five days given, today 2024-01-12:
\* three days remain
C23_Witness ==
    /\ f_call.fn = "_apply_prazo_logic"
    /\ f_call.arg = [inicio_prazo |-> Some(1), fim_prazo |-> Some(6),
                     dias_restantes |-> Some(5), hoje |-> 3]
    /\ Val(f_ret).dias_restantes = Some(3)

-----------------------------------------------------------------------------
(* Properties of the digest branch *)

\* the positions of the words "Publicação: N" that follow a newline
DigestDelimiters(s) == {j \in 2..Len(s) : s[j] = "PUB" /\ s[j - 1] = "NL"}

\* the text between delimiter j and the next delimiter
SubBlock(s, j) ==
    LET later == {k \in DigestDelimiters(s) : k > j}
        stop == IF later = {} THEN Len(s) + 1
                ELSE CHOOSE k \in later : \A l \in later : k <= l
    IN  SubSeq(s, j + 1, stop - 1)

\* the election/appointment words stand in the publication's text: anywhere
\* in a block without "PROCESSO:", else between the first "PROCESSO:" and
\* the first "Acesso ao documento:" after it
EditalInText(b) ==
    \E i \in DOMAIN b :
        /\ b[i] = "EDITAL"
        /\ Has(b, "PROC")
           => \E p \in 1..i :
                /\ b[p] = "PROC"
                /\ \A q \in 1..(p - 1) : b[q] # "PROC"
                /\ \A f \in (p + 1)..(i - 1) : b[f] # "FIM"

KeptSubBlocks(s) ==
    {j \in DigestDelimiters(s) :
        /\ Has(SubBlock(s, j), "PROC") \/ Has(SubBlock(s, j), "DATA")
        /\ ~EditalInText(SubBlock(s, j))}

-----------------------------------------------------------------------------
(* Properties of the scroll loop *)

\* C25: the scroll loop leaves at the first poll whose card count is the
\* count of the poll before it and at no earlier poll, so it makes at least
\* two polls when the marker is present, and it terminates once the count
\* stops changing.
C25_LoopExitsOnStableCount ==
    /\ [](w_pc = "poll"
            => \A i \in 2..Len(counts) : counts[i] # counts[i - 1])
    /\ []((w_pc \in {"extract", "returned"} /\ counts # <<>>)
            => /\ Len(counts) >= 2
               /\ counts[Len(counts)] = counts[Len(counts) - 1]
               /\ \A i \in 2..(Len(counts) - 1) : counts[i] # counts[i - 1])
    /\ (w_pc = "poll") ~> (w_pc = "returned")

\* the count grew twice before it stood still
C25_Witness ==
    /\ w_pc = "returned"
    /\ Len(counts) = 4
    /\ counts[1] < counts[2] /\ counts[2] < counts[3]

-----------------------------------------------------------------------------
(* Properties of extrair_data_hora_evento *)

\* the keyword stands in the text at the 0-based position i
KeywordStartsAt(t, i, alvo) ==
    /\ normalizar(<<t[i + 1]>>) = <<alvo[1]>>
    /\ LET tn == normalizar(SubSeq(t, i + 1, Min2(Len(t), i + 2 * Len(alvo))))
       IN  Len(tn) >= Len(alvo) /\ SubSeq(tn, 1, Len(alvo)) = alvo

\* where the keyword match lies in the text: the first occurrence of the
\* type's keyword, else the first occurrence of either keyword, else -1
KeywordPosition(t, tipo) ==
    LET at(a) == {i \in 0..(Len(t) - 1) : KeywordStartsAt(t, i, a)}
        own == at(IF tipo = "audiencia" THEN AUDIEN ELSE PERIC)
        any == at(AUDIEN) \cup at(PERIC)
    IN  IF own # {} THEN CHOOSE i \in own : \A j \in own : i <= j
        ELSE IF any # {} THEN CHOOSE i \in any : \A j \in any : i <= j
        ELSE 0 - 1

\* C28: extrair_data_hora_evento never returns a time without a date; the
\* date is the first DD/MM/YYYY token of the 600 characters that start at
\* the keyword match, empty when there is none, and the time the first time
\* of the 120 characters that start at that date, so that a time standing
\* only before the date is not returned.
C28_DateFromKeywordTimeFromDate ==
    f_call.fn = "extrair_data_hora_evento"
    => LET t == f_call.arg.texto
           r == Val(f_ret)
           kp == KeywordPosition(t, f_call.arg.tipo)
           window == SubSeq(t, kp + 1, Min2(Len(t), kp + 600))
           d == IF kp < 0 THEN <<>> ELSE _scan_date_simple(window)
           at == Find(window, d)
       IN  /\ r.hora # <<>> => r.data # <<>>
           /\ r.data = d
           /\ r.hora = IF d = <<>> THEN <<>>
                       ELSE _scan_time_simple(
                                SubSeq(window, at + 1, Min2(Len(window), at + 120)))

-----------------------------------------------------------------------------
(* Properties of the moves between tables *)

\* the last handler call is a move (_move_rows or a form that moves its row)
MoveInFlight == a_last.fn \in {"move_rows", "form_move"}

ModelTableNext(model) ==
    CASE model = "Andamento" -> andamentos'
      [] model = "Publicacao" -> publicacoes'
      [] model = "Financeiro" -> financeiro'
      [] model = "Agenda" -> agenda'
      [] model = "Concluida" -> concluidas'

\* the row is in the table as it was when the move read it
RowIn(t, m) == RowById(t, m.row.id) = Some(m.row)
InSource(m) == RowIn(ModelTable(a_last.model), m)

\* the columns _move_rows copies as they are (_save_row fills the term of a
\* new row that has no inicio_prazo)
CopiedCols ==
    common_cols(a_last.model, a_last.dst)
        \ {"inicio_prazo", "fim_prazo", "dias_restantes"}

\* the copy of the row is committed in the destination table
InDestination(m) ==
    /\ m.copy # None
    /\ LET copy == RowById(ModelTable(a_last.dst), Val(m.copy))
       IN /\ copy # None
          /\ a_last.fn = "move_rows"
             => \A c \in CopiedCols : Val(copy)[c] = m.row[c]

\* C29: in every state of a move (_move_rows, or a form that saves into the
\* destination table and then deletes the row of the form), each record the
\* move was asked to move is in the source table or has its copy in the
\* destination table, also after a failure between the two commits; and a
\* step that removes the record from the source table finds its copy already
\* committed in the destination table.
C29_MovedRecordNeverLost ==
    /\ [](MoveInFlight
          => \A m \in a_last.moved : InSource(m) \/ InDestination(m))
    /\ [][ MoveInFlight
           => \A m \in a_last.moved :
                (InSource(m) /\ ~RowIn(ModelTableNext(a_last.model), m))
                => InDestination(m) ]_vars

\* _move_rows of two rows ended with an exception at the second row: the
\* first row is in both tables, the second in the source table only
C29_Witness ==
    /\ a_pc = "idle"
    /\ a_last.fn = "move_rows"
    /\ a_last.outcome = "rolled_back"
    /\ \E m \in a_last.moved : InSource(m) /\ InDestination(m)
    /\ \E m \in a_last.moved : InSource(m) /\ m.copy = None

====
